---- MODULE Spec2Model ----
(***************************************************************************)
(* Model of the multi-process sync coordination of mcp-relic-server:       *)
(*   - FileLock      (flock(2) wrapper: TryLock / Lock / LockWithContext / *)
(*                    Unlock)                                              *)
(*   - Service       (NewService, Initialize leader/follower, SyncAll,     *)
(*                    syncRepo, openIndexes, Close)                        *)
(*   - Indexer       (OpenForWrite / OpenForRead / CreateAlias; FullIndex  *)
(*                    and IncrementalIndex with their open handles and the *)
(*                    documents they leave in the index)                   *)
(*   - Manifest      (the per-repo records syncRepo reads and stores)      *)
(*   - GitClient     (clone / fetch / reset / head / diff by their effect  *)
(*                    on the working tree and their reported outcome)      *)
(* Spec runs two processes on one base directory, SpecLock the FileLock on *)
(* its own, SpecSync one process over successive runs, SpecFanOut the      *)
(* goroutines of SyncAll over NumURLs URLs, SpecManifest two goroutines on *)
(* the Manifest's map, SpecSave the steps of Manifest.Save, SpecBatch the  *)
(* batches of one FullIndex walk, SpecIndex FullIndex and IncrementalIndex *)
(* on the files of one working directory, SpecRead the read_code tool on   *)
(* its arguments, SpecGit syncRepo over the git commands of one cloned     *)
(* repository, SpecSearch the search_code tool beside Close.               *)
(* Time is a discrete clock; one unit is 10 ms (the initial poll interval).*)
(***************************************************************************)
EXTENDS Integers, FiniteSets, Sequences, TLC

\* ------------------------------------------------------------------ bounds
\* largest timeout handed to Lock / LockWithContext, in clock units
MaxTimeout == 2

\* number of configured repository URLs (settings.URLs) in the fan-out of
\* SyncAll
NumURLs == 5

\* number of times the in-memory manifest changes between calls of Save
MaxVersions == 3

\* number of documents one FullIndex walk adds
MaxWalkFiles == 110

\* longest path argument of read_code, in characters
MaxPathLen == 5

\* number of commits the remote default branch gets
MaxCommits == 8

\* ------------------------------------------------- constants of the program
\* MaxBatchSize: documents per batch
MaxBatchSize == 100
\* MaxBatchBytes: bytes of content per batch (10 * 1024 * 1024)
MaxBatchBytes == 10485760
\* default of git_repos.max_file_size (256 * 1024), the maxFileSize of the
\* Indexer
DefaultMaxFileSize == 262144
\* MaxParallelSyncs
MaxParallelSyncs == 4
\* pollInterval := 10 * time.Millisecond (one clock unit)
InitialPollInterval == 1
\* maxPollInterval := 500 * time.Millisecond
MaxPollInterval == 50

\* The processes (one Service each) and the FileLock instances on sync.lock:
\* instance p is Service p's s.lock; the other instance stands for a holder
\* outside the services that only try-locks and unlocks (the flock(1) command
\* of TestFileLock_CrossProcess).
Procs == {1, 2}
Others == {3}
Locks == Procs \cup Others
Timeouts == 1..MaxTimeout
\* settings.SyncTimeout (validated positive), the same in every process
SyncTimeout == MaxTimeout
\* Repo IDs of settings.URLs (the same in every process), and one Repo ID that
\* an earlier run with another configuration left in the base directory
Configured == {1}
StaleRepos == {0}
AllRepos == Configured \cup StaleRepos
\* s.settings.URLs where SyncAll is modelled with syncRepo as a single step
URLs == 1..NumURLs
\* commit identifiers the VCS client can report
Commits == {"c1", "c2"}

\* RepoState (url and file_count are not modelled); present = FALSE stands for
\* "no entry in Manifest.Repos". last_pull is "zero", "now" (a time stamp
\* taken by the running process) or "old" (one read from manifest.json)
NoRepo == [present |-> FALSE, cloned |-> FALSE, lastPull |-> "zero",
           lastCommit |-> "", lastIndexed |-> "", err |-> FALSE]
\* RepoState{}
ZeroState == [NoRepo EXCEPT !.present = TRUE]
\* a record written by a successful sync
SyncedState(c) == [present |-> TRUE, cloned |-> TRUE, lastPull |-> "old",
                   lastCommit |-> c, lastIndexed |-> c, err |-> FALSE]
\* NewManifest()
NewManifest == [repos |-> [r \in AllRepos |-> NoRepo], lastSync |-> FALSE]
\* LoadManifest: the time stamps read from the file lie in the past
LoadManifest(m) ==
    [m EXCEPT !.repos = [r \in AllRepos |->
        [m.repos[r] EXCEPT !.lastPull = IF @ = "now" THEN "old" ELSE @]]]

\* a file that does not exist, and a file that holds version v of the
\* manifest's JSON, all of it or only a first part
NoFile == [exists |-> FALSE, ver |-> 0, complete |-> FALSE]
FileOf(v, whole) == [exists |-> TRUE, ver |-> v, complete |-> whole]

\* the goroutines of one SyncAll that share s.manifest; goroutine g syncs the
\* repository with Repo ID g
Goroutines == {1, 2}
\* a goroutine that is in no Manifest method
NoCall == [method |-> "none", stage |-> "call", local |-> NoRepo]

\* ------------------------------------------------ files and documents
\* relative paths in a working directory
Paths == {"a.go", "b.txt", "vendor/v.go"}

\* file contents, as the words of the text
Texts == {<<"func", "F">>, <<"x">>}

\* what a path of the working directory holds: nothing, a directory, or a
\* file that is larger than maxFileSize, binary, or a text
Gone == [kind |-> "gone", big |-> FALSE, binary |-> FALSE, content |-> <<>>]
Dir == [kind |-> "dir", big |-> FALSE, binary |-> FALSE, content |-> <<>>]
BigFile == [kind |-> "file", big |-> TRUE, binary |-> FALSE, content |-> <<>>]
BinaryFile == [kind |-> "file", big |-> FALSE, binary |-> TRUE, content |-> <<>>]
TextFile(c) == [kind |-> "file", big |-> FALSE, binary |-> FALSE, content |-> c]
FileVals == {Gone, Dir, BigFile, BinaryFile} \cup {TextFile(c) : c \in Texts}

\* filter.ShouldExclude(relPath)
ShouldExclude(relPath) == relPath \in {"vendor/v.go"}

\* GetFileExtension(relPath)
GetFileExtension(relPath) == IF relPath = "b.txt" THEN "txt" ELSE "go"

\* the words a pattern of the language takes the next word as a symbol after
SymbolKeywords(ext) ==
    IF ext \in {"go", "golang"} THEN {"func", "const", "var"}
    ELSE IF ext \in {"py", "python"} THEN {"def", "class"}
    ELSE {}

\* ExtractSymbols(ext, content): the identifiers the patterns of the
\* extension capture, without duplicates; none for an unknown extension
ExtractSymbols(ext, content) ==
    {content[i + 1] : i \in {j \in 1..(Len(content) - 1) : content[j] \in SymbolKeywords(ext)}}

\* no document under an ID / the domain.CodeDocument FullIndex and
\* IncrementalIndex build for a text file (ID, Repository and FilePath
\* follow from the path)
NoDoc == [present |-> FALSE, extension |-> "", content |-> <<>>]
CodeDocument(relPath, content) ==
    [present |-> TRUE, extension |-> GetFileExtension(relPath), content |-> content]

\* no call has returned since the working directory last changed
NoRet == [op |-> "none", n |-> 0, err |-> FALSE, paths |-> {}]

\* ------------------------------------------------------- paths as strings
\* A string is a sequence of characters; a character that stands for a run
\* of letters ("base", "repos", "manifest") is written as one element.
DotDot == <<".", ".">>

\* strings.HasPrefix, strings.Contains
HasPrefix(str, prefix) ==
    Len(str) >= Len(prefix) /\ SubSeq(str, 1, Len(prefix)) = prefix
Contains(str, sub) ==
    \E i \in 1..(Len(str) - Len(sub) + 1) : SubSeq(str, i, i + Len(sub) - 1) = sub

\* the elements of a path between its separators
RECURSIVE SplitFrom(_, _, _)
SplitFrom(str, i, acc) ==
    IF i > Len(str) THEN acc
    ELSE IF str[i] = "/" THEN SplitFrom(str, i + 1, Append(acc, <<>>))
    ELSE SplitFrom(str, i + 1, [acc EXCEPT ![Len(acc)] = Append(@, str[i])])
Components(str) == SplitFrom(str, 1, << <<>> >>)

\* filepath.Clean on the elements: empty and "." elements are dropped, ".."
\* removes the element before it, is dropped at the root and is kept at the
\* start of a relative path
RECURSIVE CleanComponents(_, _, _)
CleanComponents(out, comps, rooted) ==
    IF comps = <<>> THEN out
    ELSE LET c == Head(comps)
         IN IF c = <<>> \/ c = <<".">> THEN CleanComponents(out, Tail(comps), rooted)
            ELSE IF c = DotDot
                 THEN IF out # <<>> /\ out[Len(out)] # DotDot
                      THEN CleanComponents(SubSeq(out, 1, Len(out) - 1), Tail(comps), rooted)
                      ELSE IF rooted THEN CleanComponents(out, Tail(comps), rooted)
                      ELSE CleanComponents(Append(out, c), Tail(comps), rooted)
                 ELSE CleanComponents(Append(out, c), Tail(comps), rooted)

RECURSIVE JoinComponents(_)
JoinComponents(comps) ==
    IF comps = <<>> THEN <<>>
    ELSE IF Len(comps) = 1 THEN Head(comps)
    ELSE Head(comps) \o <<"/">> \o JoinComponents(Tail(comps))

\* filepath.Clean
CleanPath(path) ==
    IF path = <<>> THEN <<".">>
    ELSE LET rooted == Head(path) = "/"
             body == JoinComponents(CleanComponents(<<>>, Components(path), rooted))
         IN IF rooted THEN <<"/">> \o body
            ELSE IF body = <<>> THEN <<".">> ELSE body

\* filepath.IsAbs
IsAbs(path) == path # <<>> /\ Head(path) = "/"

\* filepath.Join(a, b): the non-empty elements joined by a separator, cleaned
JoinPath(a, b) ==
    IF a = <<>> THEN (IF b = <<>> THEN <<>> ELSE CleanPath(b))
    ELSE IF b = <<>> THEN CleanPath(a)
    ELSE CleanPath(a \o <<"/">> \o b)

\* sanitizeForFilesystem / DisplayToRepoID: slashes, colons and @ become
\* underscores
DisplayToRepoID(display) ==
    [i \in 1..Len(display) |-> IF display[i] \in {"/", ":", "@"} THEN "_" ELSE display[i]]

\* the calls of the search_code handler that can run at the same time
NumSearches == 2
Handlers == 1..NumSearches
\* a call of the handler that has not begun
IdleSearch == [pc |-> "idle", alias |-> "nil", result |-> "none", onClosed |-> FALSE]

\* no read_code call in progress; an mcp.CallToolResult with IsError
NoArgs == [called |-> FALSE, ready |-> FALSE, repository |-> <<>>, path |-> <<>>]
NoResult == [isError |-> FALSE, text |-> "", content |-> ""]
ErrorResult(text) == [isError |-> TRUE, text |-> text, content |-> ""]

\* ------------------------------------------------ working trees and indexes
\* paths of the indexable files of a repository
Files == {"a", "b"}
\* no file / no document
NoFiles == [f \in Files |-> ""]
\* the indexable files of the tree at a commit, with their content: from c1
\* to c2 file a is modified and file b is deleted
TreeAt(c) == IF c = "c1" THEN [f \in Files |-> "v1"]
             ELSE [f \in Files |-> IF f = "a" THEN "v2" ELSE ""]
\* the files found in a working directory whose state is t ("none": no
\* directory, "partial": what a killed clone left, else the commit checked out)
WorkingFiles(t) == IF t \in Commits THEN TreeAt(t) ELSE NoFiles
\* git diff --name-only from..to
ChangedFiles(from, to) == {f \in Files : TreeAt(from)[f] # TreeAt(to)[f]}

VARIABLES
    held,         \* kernel: lock instances whose open file description holds the flock
    file,         \* FileLock.file != nil
    lpc,          \* position of the instance's running LockWithContext ("idle" if none)
    lctx,         \* TRUE iff the running LockWithContext got a cancellable context
    deadline,     \* deadline - time.Now() of the running LockWithContext (-1: passed)
    pollInterval, \* pollInterval of the running LockWithContext
    wakeIn,       \* time left until time.After(pollInterval) fires
    lres,         \* result of the last TryLock / LockWithContext on the instance
    cancelled,    \* ctx.Done() is closed
    owned,        \* history: a TryLock/Lock returned success and Unlock was not called since
    relSeen,      \* history: during the running Lock call the holder unlocked before
                  \*          the deadline and nobody took the lock afterwards
    punctual,     \* history: every poll of the running Lock call was made on time
    \* --- base directory (shared by the processes)
    manifestFile, \* contents of manifest.json
    repoDir,      \* repos/<repoID> exists
    indexDir,     \* indexes/<repoID>.bleve exists
    handles,      \* open bleve index handles: [proc, repo, via, cap]
    \* --- Service (one per process)
    pc,           \* position of the process: NewService, Initialize, Close
    role,         \* acquired of Initialize: "leader" (true), "follower" (false)
    manifest,     \* s.manifest
    ready,        \* s.ready
    initErr,      \* error returned by Initialize ("none": nil or not returned yet)
    \* --- syncRepo workers of SyncAll (one goroutine per process and URL)
    wpc,          \* position of the worker
    wstate,       \* state (copy of the manifest record)
    wnew,         \* isNew
    wcur,         \* currentCommit
    \* --- SyncAll over NumURLs URLs, syncRepo taken as one step
    fan,          \* position of the goroutine of each URL
    errChan,      \* the URLs whose error was sent to errChan
    fanRet,       \* what SyncAll returned ("none": not returned)
    \* --- one Manifest shared by the goroutines of SyncAll
    mrepos,       \* m.Repos: the record under each goroutine's Repo ID
    mcall,        \* per goroutine: the Manifest method it is in, how far, its local state
    mlost,        \* goroutines whose map write in progress will not take effect
    mcrashed,     \* the runtime has stopped the process (fatal error: concurrent map ...)
    mexpect,      \* history: the record the goroutine's returned calls have written
    \* --- Manifest.Save on the manifest path, step by step
    sfiles,       \* content of the file at path ("path") and at path + ".tmp" ("tmp")
    spc,          \* position of the Save call
    sdata,        \* data: the version of the manifest that was marshalled
    smem,         \* the version of the manifest in memory
    sprev,        \* history: content of the file at path when Save was called
    \* --- FullIndex, the batches of one walk
    bpc,          \* "idle", "walk", "done" (returned nil) or "failed"
    batchSize,    \* FullIndex's batchSize
    batchBytes,   \* FullIndex's batchBytes
    totalIndexed, \* FullIndex's totalIndexed
    pending,      \* documents in the bleve batch not yet handed to index.Batch
    added,        \* documents the walk has added with batch.Index
    \* --- the Indexer on one repository, file by file
    wdir,         \* the files of repoDir, by relative path
    docs,         \* the documents of the repository's index, by relative path
    ixret,        \* what the last FullIndex / IncrementalIndex call returned
    \* --- the read_code tool
    rdArgs,       \* the call in progress: readiness of the service and the arguments
    rdResult,     \* the mcp.CallToolResult of the call
    rdTouched,    \* the paths the call passed to os.Stat or os.ReadFile
    \* --- syncRepo of an existing repository over the git commands
    gitRemote,    \* the commit of the remote default branch
    gitOrigin,    \* the local ref origin/HEAD
    gitHead,      \* the local HEAD, checked out in the working tree
    gitIndexed,   \* the commit whose files the index holds
    gitState,     \* the repository's record: last_commit and last_indexed
    gitPc,        \* position of the syncRepo call
    gitCur,       \* currentCommit of the call
    gitBehind,    \* the remote was ahead of last_commit when the call began
    gitRet,       \* how the last call returned: "none", "ok" or "error"
    \* --- the search_code tool on one Service
    sAlias,       \* s.alias: "nil" or "alias"
    sReady,       \* s.ready
    sOpened,      \* openIndexes has run
    aliasClosed,  \* Close was called on the alias object
    srch,         \* per call of the handler: position, the alias it got, its result
    \* --- content of the base directory
    tree,         \* repos/<repoID>: "none", "partial" or the commit checked out
    idx,          \* indexes/<repoID>.bleve: content of the document of each path
    \* --- history of the running syncRepo call / SyncAll call
    wops,         \* VCS and index operations the syncRepo call has invoked
    wneed,        \* needsReindex as decided by the call ("unknown" before)
    injected,     \* an operation of this SyncAll failed that could have succeeded
    \* --- history
    work,         \* clone/index operations the process has invoked
    built,        \* repos whose index the process has built successfully
    blockedBy,    \* the holder that made the process's TryLock fail
    inTime,       \* that holder finished as leader and unlocked within the
                  \* process's sync timeout
    interrupted   \* a clone or fetch of the repo was cancelled or failed part-way

lockVars == <<held, file, lpc, lctx, deadline, pollInterval, wakeIn, lres, owned, relSeen, punctual>>
diskVars == <<manifestFile, repoDir, indexDir, handles>>
svcVars == <<pc, role, manifest, ready, initErr>>
mapVars == <<mrepos, mcall, mlost, mcrashed, mexpect>>
saveVars == <<sfiles, spc, sdata, smem, sprev>>
batchVars == <<bpc, batchSize, batchBytes, totalIndexed, pending, added>>
ixVars == <<wdir, docs, ixret>>
readVars == <<rdArgs, rdResult, rdTouched>>
gitVars == <<gitRemote, gitOrigin, gitHead, gitIndexed, gitState, gitPc, gitCur, gitBehind, gitRet>>
searchVars == <<sAlias, sReady, sOpened, aliasClosed, srch>>
fanVars == <<fan, errChan, fanRet, mapVars, saveVars, batchVars, ixVars, readVars, gitVars, searchVars>>
workerVars == <<wpc, wstate, wnew, wcur, fanVars>>
histVars == <<work, built, blockedBy, inTime, interrupted>>
contentVars == <<tree, idx>>
callVars == <<wops, wneed, injected>>
appVars == <<diskVars, svcVars, workerVars, histVars, contentVars, callVars>>
vars == <<cancelled, lockVars, appVars>>

Min(a, b) == IF a < b THEN a ELSE b
Max(a, b) == IF a > b THEN a ELSE b

\* ---------------------------------------------------------------- FileLock
\* syscall.Flock(fd, LOCK_EX|LOCK_NB) == nil: no other open file description
\* holds the lock (re-locking through the same description succeeds).
FlockMutant(i) == TRUE
FlockSucceeds(i) == held \ {i} = {}

\* l.file.Close(): the kernel drops a flock with its open file description.
CloseFile(i) ==
    /\ file' = [file EXCEPT ![i] = FALSE]
    /\ held' = held \ {i}

\* ctx.Done() is readable: only for a cancellable context (Lock passes
\* context.Background()).
CtxDone(i) == lctx[i] /\ cancelled[i]

\* time.Now().After(deadline)
DeadlineExpiredMutant(i) == deadline[i] <= 0
DeadlineExpired(i) == deadline[i] < 0

\* history: instance i gives the lock up; every Lock call still before its
\* deadline has seen the holder release in time
Released(i) ==
    relSeen' = [j \in Locks |->
                  IF j = i THEN FALSE
                  ELSE IF i \in held /\ lpc[j] # "idle" /\ deadline[j] > 0 THEN TRUE
                  ELSE relSeen[j]]

\* history: instance i takes the lock
Acquired(i) ==
    relSeen' = [j \in Locks |-> IF j = i THEN relSeen[i] ELSE FALSE]

\* FileLock.TryLock
TryLock(i) ==
    /\ lpc[i] = "idle"
    /\ UNCHANGED <<lpc, lctx, deadline, pollInterval, wakeIn, punctual>>
    /\ \/ \* ensureFileExists fails
          /\ ~file[i]
          /\ lres' = [lres EXCEPT ![i] = "error"]
          /\ UNCHANGED <<held, file, owned, relSeen>>
       \/ \* flock succeeds
          /\ FlockSucceeds(i)
          /\ file' = [file EXCEPT ![i] = TRUE]
          /\ held' = held \cup {i}
          /\ lres' = [lres EXCEPT ![i] = "ok"]
          /\ owned' = [owned EXCEPT ![i] = TRUE]
          /\ Acquired(i)
       \/ \* EWOULDBLOCK: close the handle, (false, nil)
          /\ ~FlockSucceeds(i)
          /\ CloseFile(i)
          /\ lres' = [lres EXCEPT ![i] = "would_block"]
          /\ UNCHANGED <<owned, relSeen>>

\* FileLock.LockWithContext up to the loop: ensureFileExists, deadline, pollInterval.
\* withCtx = FALSE is FileLock.Lock (context.Background()).
LockStart(i, timeout, withCtx) ==
    /\ lpc[i] = "idle"
    /\ UNCHANGED <<held, wakeIn, owned, punctual>>
    /\ relSeen' = [relSeen EXCEPT ![i] = FALSE]
    /\ \/ \* ensureFileExists fails
          /\ ~file[i]
          /\ lres' = [lres EXCEPT ![i] = "error"]
          /\ UNCHANGED <<file, lpc, lctx, deadline, pollInterval>>
       \/ /\ file' = [file EXCEPT ![i] = TRUE]
          /\ lpc' = [lpc EXCEPT ![i] = "check"]
          /\ lctx' = [lctx EXCEPT ![i] = withCtx]
          /\ deadline' = [deadline EXCEPT ![i] = timeout]
          /\ pollInterval' = [pollInterval EXCEPT ![i] = InitialPollInterval]
          /\ lres' = [lres EXCEPT ![i] = "none"]

\* the call returns: its locals are gone
LockReturn(i, res) ==
    /\ lpc' = [lpc EXCEPT ![i] = "idle"]
    /\ lctx' = [lctx EXCEPT ![i] = FALSE]
    /\ deadline' = [deadline EXCEPT ![i] = 0]
    /\ pollInterval' = [pollInterval EXCEPT ![i] = 0]
    /\ wakeIn' = [wakeIn EXCEPT ![i] = 0]
    /\ punctual' = [punctual EXCEPT ![i] = TRUE]
    /\ lres' = [lres EXCEPT ![i] = res]

\* One iteration of the loop of LockWithContext up to the second select:
\* context check, timeout check, flock attempt.
LockPoll(i) ==
    /\ lpc[i] = "check"
    /\ UNCHANGED <<cancelled, appVars>>
    /\ IF CtxDone(i)
       THEN /\ CloseFile(i)
            /\ LockReturn(i, "canceled")
            /\ Released(i)
            /\ UNCHANGED owned
       ELSE IF DeadlineExpired(i)
       THEN /\ CloseFile(i)
            /\ LockReturn(i, "timeout")
            /\ Released(i)
            /\ UNCHANGED owned
       ELSE IF FlockSucceeds(i)
       THEN /\ held' = held \cup {i}
            /\ LockReturn(i, "ok")
            /\ owned' = [owned EXCEPT ![i] = TRUE]
            /\ Acquired(i)
            /\ UNCHANGED file
       ELSE /\ lpc' = [lpc EXCEPT ![i] = "sleep"]
            /\ wakeIn' = [wakeIn EXCEPT ![i] = pollInterval[i]]
            /\ UNCHANGED <<held, file, lctx, deadline, pollInterval, lres, owned, relSeen, punctual>>

\* The second select of the loop: ctx.Done() or time.After(pollInterval).
LockWake(i) ==
    /\ lpc[i] = "sleep"
    /\ UNCHANGED <<cancelled, appVars>>
    /\ \/ /\ CtxDone(i)
          /\ CloseFile(i)
          /\ LockReturn(i, "canceled")
          /\ Released(i)
          /\ UNCHANGED owned
       \/ /\ wakeIn[i] = 0
          /\ lpc' = [lpc EXCEPT ![i] = "check"]
          /\ pollInterval' = [pollInterval EXCEPT ![i] = Min(pollInterval[i] * 2, MaxPollInterval)]
          /\ UNCHANGED <<held, file, lctx, deadline, wakeIn, lres, owned, relSeen, punctual>>

\* FileLock.Unlock
Unlock(i) ==
    /\ lpc[i] = "idle"
    /\ owned' = [owned EXCEPT ![i] = FALSE]
    /\ lres' = [lres EXCEPT ![i] = "none"]
    /\ UNCHANGED <<lpc, lctx, deadline, pollInterval, wakeIn, punctual>>
    /\ IF ~file[i]
       THEN UNCHANGED <<held, file, relSeen>>
       ELSE /\ CloseFile(i)
            /\ Released(i)

\* ------------------------------------------------------------- environment
\* One clock unit passes. Only a running LockWithContext reads the clock. A
\* poll that is due (its timer fired, or it is about to check) and has not
\* been made when the clock moves on is late.
Tick ==
    /\ \E i \in Locks : lpc[i] # "idle" /\ deadline[i] >= 0
    /\ deadline' = [i \in Locks |-> IF lpc[i] = "idle" THEN 0 ELSE Max(deadline[i] - 1, -1)]
    /\ wakeIn' = [i \in Locks |-> IF lpc[i] = "sleep" THEN Max(wakeIn[i] - 1, 0) ELSE 0]
    /\ punctual' = [i \in Locks |->
                      punctual[i] /\ ~(lpc[i] = "check" \/ (lpc[i] = "sleep" /\ wakeIn[i] = 0))]
    /\ UNCHANGED <<cancelled, held, file, lpc, lctx, pollInterval, lres, owned, relSeen, appVars>>

\* the caller's context is cancelled
Cancel(i) ==
    /\ ~cancelled[i]
    /\ cancelled' = [cancelled EXCEPT ![i] = TRUE]
    /\ UNCHANGED <<lockVars, appVars>>

\* ----------------------------------------------------------------- Indexer
\* bleve.Open(indexPath): the handle it returns can write the index (FullIndex
\* and IncrementalIndex write through it); no read-only option is passed.
bleveOpen == "rw"

\* capability of the handle OpenForWrite returns (bleve.Open, else bleve.New)
OpenForWriteCap == bleveOpen

\* capability of the handle OpenForRead returns
OpenForReadCap == bleveOpen

\* Opening the index of repo r with capability cap does not succeed while a
\* handle on it is open elsewhere, unless both are read-only ("Bleve index
\* file conflicts": a writable handle owns the index directory).
Conflicts(r, cap) == \E h \in handles : h.repo = r /\ (h.cap = "rw" \/ cap = "rw")

Handle(p, r, via, cap) == [proc |-> p, repo |-> r, via |-> via, cap |-> cap]

\* ----------------------------------------------------------------- Service
\* workers of p between `sem <- struct{}{}` and `<-sem`
InFlight(p) == {r \in Configured : wpc[p][r] \notin {"idle", "spawned", "done"}}

\* sem <- struct{}{} proceeds: fewer than cap(sem) of the workers, whose
\* positions are f, hold a slot
CanAcquireUnboundedMutant(f) == TRUE
CanAcquire(f) ==
    Cardinality({w \in DOMAIN f : f[w] \notin {"idle", "spawned", "done"}}) < MaxParallelSyncs

\* Manifest.GetRepoState: the record, an empty one if there is none
GetRepoStateFreshMutant(m, r) == ZeroState
GetRepoState(m, r) == IF m.repos[r].present THEN m.repos[r] ELSE ZeroState

\* isNew := !s.manifest.HasRepo(repoID) || state.ClonedAt.IsZero(), evaluated
\* after GetRepoState has stored the record
IsNewMutant(m, r) == ~m.repos[r].present
IsNew(m, r) ==
    LET state == GetRepoState(m, r)
    IN ~state.present \/ ~state.cloned

\* what GetHeadCommit can report: the commit just cloned for a new repo; for
\* an existing one any commit (the fetch may have brought a new head)
HeadCommits(r, isNew) == IF isNew THEN {tree[r]} ELSE Commits

\* syncRepo: where a failed incremental attempt goes
NoFallbackMutant == "fail"
IncrementalFallback == "full"

\* syncRepo: the state after a successful index build at commit c
IndexedNoPullMutant(st, c) == [st EXCEPT !.lastCommit = c, !.lastIndexed = c]
Indexed(st, c) == [st EXCEPT !.lastCommit = c, !.lastIndexed = c, !.lastPull = "now"]

\* FullIndex: a document is written for every file of the working directory;
\* nothing is deleted from an existing index
FullIndexed(ix, t) ==
    [f \in Files |-> IF WorkingFiles(t)[f] # "" THEN WorkingFiles(t)[f] ELSE ix[f]]

\* IncrementalIndex: for every changed path, the document is deleted if the
\* file is gone and rewritten otherwise
IncrementalIndexed(ix, t, changed) ==
    [f \in Files |-> IF f \in changed THEN WorkingFiles(t)[f] ELSE ix[f]]

\* an external git command run with p's ctx can succeed only if ctx is not done
GitCanSucceed(p) == ~cancelled[p]

\* NewService: create the directories, LoadManifest, build the components
NewService(p) ==
    /\ pc[p] = "new"
    /\ pc' = [pc EXCEPT ![p] = "init"]
    /\ manifest' = [manifest EXCEPT ![p] = LoadManifest(manifestFile)]
    /\ UNCHANGED <<cancelled, contentVars, callVars, lockVars, diskVars, role, ready, initErr, workerVars, histVars>>

\* Initialize: where it goes once TryLock has returned res
WouldBlockSyncsMutant(res) == IF res = "error" THEN "done" ELSE "sync"
AfterTryLock(res) ==
    CASE res = "ok" -> "sync"
      [] res = "would_block" -> "lock"
      [] OTHER -> "done"

\* Initialize: acquired, err := s.lock.TryLock() and the branch on it
Initialize_TryLock(p) ==
    /\ pc[p] = "init"
    /\ TryLock(p)
    /\ pc' = [pc EXCEPT ![p] = AfterTryLock(lres'[p])]
    /\ role' = [role EXCEPT ![p] = CASE lres'[p] = "ok" -> "leader"
                                     [] lres'[p] = "would_block" -> "follower"
                                     [] OTHER -> "none"]
    /\ initErr' = [initErr EXCEPT ![p] = IF lres'[p] = "error" THEN "lock" ELSE "none"]
    /\ blockedBy' = [blockedBy EXCEPT ![p] =
                        IF lres'[p] = "would_block" THEN CHOOSE h \in held : h # p ELSE 0]
    /\ UNCHANGED <<cancelled, contentVars, callVars, diskVars, manifest, ready, workerVars, work, built, inTime, interrupted>>

\* Initialize, follower: s.lock.Lock(s.settings.SyncTimeout) is called
Initialize_FollowerLock(p) ==
    /\ pc[p] = "lock"
    /\ LockStart(p, SyncTimeout, FALSE)
    /\ pc' = [pc EXCEPT ![p] = "wait"]
    /\ UNCHANGED <<cancelled, contentVars, callVars, diskVars, role, manifest, ready, initErr, workerVars, histVars>>

\* Initialize, follower: where it goes once Lock has returned res
FollowerSyncsMutant(res) == IF res = "ok" THEN "open" ELSE "sync"
FollowerNext(res) == "open"

\* Initialize, follower: the error it returns because Lock returned res
FollowerFailsMutant(res) == IF res = "timeout" THEN "lock" ELSE "none"
FollowerErr(res) == "none"

\* Initialize, follower: Lock has returned; unlock at once if it got the lock,
\* else only warn
Initialize_FollowerAfterLock(p) ==
    /\ pc[p] = "wait"
    /\ lpc[p] = "idle"
    /\ IF lres[p] = "ok"
       THEN Unlock(p)
       ELSE UNCHANGED lockVars
    /\ initErr' = [initErr EXCEPT ![p] = FollowerErr(lres[p])]
    /\ pc' = [pc EXCEPT ![p] = IF FollowerErr(lres[p]) # "none" THEN "done" ELSE FollowerNext(lres[p])]
    /\ UNCHANGED <<cancelled, contentVars, callVars, diskVars, role, manifest, ready, workerVars, histVars>>

\* Manifest.RemoveStaleRepos(urls): the removed keys
StaleInNoneMutant(m) == {}
StaleIn(m) == {r \in AllRepos : m.repos[r].present /\ r \notin Configured}

\* SyncAll up to wg.Wait(): RemoveStaleRepos, DeleteIndex and RemoveAll of each
\* removed repo, one goroutine per URL
SyncAll_Start(p) ==
    /\ pc[p] = "sync"
    /\ pc' = [pc EXCEPT ![p] = "syncing"]
    /\ manifest' = [manifest EXCEPT ![p].repos =
                       [r \in AllRepos |-> IF r \in StaleIn(manifest[p]) THEN NoRepo ELSE @[r]]]
    /\ indexDir' = [r \in AllRepos |-> indexDir[r] /\ r \notin StaleIn(manifest[p])]
    /\ repoDir' = [r \in AllRepos |-> repoDir[r] /\ r \notin StaleIn(manifest[p])]
    /\ idx' = [r \in AllRepos |-> IF r \in StaleIn(manifest[p]) THEN NoFiles ELSE idx[r]]
    /\ tree' = [r \in AllRepos |-> IF r \in StaleIn(manifest[p]) THEN "none" ELSE tree[r]]
    /\ wpc' = [wpc EXCEPT ![p] = [r \in Configured |-> "spawned"]]
    /\ injected' = [injected EXCEPT ![p] = FALSE]
    /\ UNCHANGED <<cancelled, lockVars, manifestFile, handles, role, ready, initErr,
                   wstate, wnew, wcur, wops, wneed, histVars>>
    /\ UNCHANGED fanVars

\* worker: acquire the semaphore; syncRepo: GetRepoState (which stores an empty
\* record for an unknown repo), isNew
SyncRepo_Start(p, r) ==
    /\ wpc[p][r] = "spawned"
    /\ CanAcquire(wpc[p])
    /\ LET rec == GetRepoState(manifest[p], r)
           isNew == IsNew(manifest[p], r)
       IN /\ manifest' = [manifest EXCEPT ![p].repos[r] = rec]
          /\ wstate' = [wstate EXCEPT ![p][r] = rec]
          /\ wnew' = [wnew EXCEPT ![p][r] = isNew]
          /\ wpc' = [wpc EXCEPT ![p][r] = IF isNew THEN "clone" ELSE "fetch"]
    /\ wops' = [wops EXCEPT ![p][r] = {}]
    /\ wneed' = [wneed EXCEPT ![p][r] = "unknown"]
    /\ UNCHANGED <<cancelled, contentVars, injected, lockVars, diskVars, pc, role, ready, initErr,
                   wcur, histVars>>
    /\ UNCHANGED fanVars

\* syncRepo, new repo: s.git.Clone; on success state.URL, state.ClonedAt
SyncRepo_Clone(p, r) ==
    /\ wpc[p][r] = "clone"
    /\ work' = [work EXCEPT ![p] = @ \cup {"clone"}]
    /\ wops' = [wops EXCEPT ![p][r] = @ \cup {"clone"}]
    /\ IF tree[r] # "none"
       THEN \* destination path already exists and is not an empty directory
            /\ wpc' = [wpc EXCEPT ![p][r] = "fail"]
            /\ UNCHANGED <<repoDir, tree, wstate, injected, interrupted>>
       ELSE \/ /\ GitCanSucceed(p)
               /\ \E c \in Commits : tree' = [tree EXCEPT ![r] = c]
               /\ repoDir' = [repoDir EXCEPT ![r] = TRUE]
               /\ wstate' = [wstate EXCEPT ![p][r].cloned = TRUE]
               /\ wpc' = [wpc EXCEPT ![p][r] = "head"]
               /\ UNCHANGED <<injected, interrupted>>
            \/ /\ wpc' = [wpc EXCEPT ![p][r] = "fail"]
               /\ injected' = [injected EXCEPT ![p] = TRUE]
               /\ interrupted' = [interrupted EXCEPT ![r] = TRUE]
               /\ \E t \in {"none", "partial"} :
                    /\ tree' = [tree EXCEPT ![r] = t]
                    /\ repoDir' = [repoDir EXCEPT ![r] = (t # "none")]
               /\ UNCHANGED wstate
    /\ UNCHANGED <<cancelled, idx, wneed, lockVars, manifestFile, indexDir, handles, svcVars,
                   wnew, wcur, built, blockedBy, inTime>>
    /\ UNCHANGED fanVars

\* syncRepo, existing repo: s.git.Fetch
SyncRepo_Fetch(p, r) ==
    /\ wpc[p][r] = "fetch"
    /\ work' = [work EXCEPT ![p] = @ \cup {"fetch"}]
    /\ wops' = [wops EXCEPT ![p][r] = @ \cup {"fetch"}]
    /\ \/ /\ GitCanSucceed(p)
          /\ wpc' = [wpc EXCEPT ![p][r] = "head"]
          /\ UNCHANGED <<injected, interrupted>>
       \/ /\ wpc' = [wpc EXCEPT ![p][r] = "fail"]
          /\ injected' = [injected EXCEPT ![p] = TRUE]
          /\ interrupted' = [interrupted EXCEPT ![r] = TRUE]
    /\ UNCHANGED <<cancelled, contentVars, wneed, lockVars, diskVars, svcVars, wstate, wnew, wcur,
                   built, blockedBy, inTime>>
    /\ UNCHANGED fanVars

\* needsReindex := isNew || state.LastIndexed == "" || currentCommit != state.LastCommit
NeedsReindexMutant(isNew, st, cur) == isNew \/ st.lastIndexed = ""
NeedsReindex(isNew, st, cur) == isNew \/ st.lastIndexed = "" \/ cur # st.lastCommit

\* the condition of the reset / incremental attempt
ResetNeverMutant(isNew, st, cur) == FALSE
ResetFirst(isNew, st, cur) == ~isNew /\ st.lastIndexed # "" /\ cur # st.lastCommit

\* syncRepo: s.git.GetHeadCommit and the decision that follows it
SyncRepo_Head(p, r) ==
    /\ wpc[p][r] = "head"
    /\ \/ /\ GitCanSucceed(p)
          /\ \E c \in HeadCommits(r, wnew[p][r]) :
               /\ wcur' = [wcur EXCEPT ![p][r] = c]
               /\ wneed' = [wneed EXCEPT ![p][r] =
                              IF NeedsReindex(wnew[p][r], wstate[p][r], c) THEN "yes" ELSE "no"]
               /\ wpc' = [wpc EXCEPT ![p][r] =
                            IF ~NeedsReindex(wnew[p][r], wstate[p][r], c) THEN "ok"
                            ELSE IF ResetFirst(wnew[p][r], wstate[p][r], c) THEN "reset"
                            ELSE "full"]
          /\ UNCHANGED injected
       \/ /\ wpc' = [wpc EXCEPT ![p][r] = "fail"]
          /\ injected' = [injected EXCEPT ![p] = TRUE]
          /\ UNCHANGED <<wcur, wneed>>
    /\ UNCHANGED <<cancelled, contentVars, wops, lockVars, diskVars, svcVars, wstate, wnew, histVars>>
    /\ UNCHANGED fanVars

\* syncRepo: s.git.Reset before the incremental attempt
SyncRepo_Reset(p, r) ==
    /\ wpc[p][r] = "reset"
    /\ work' = [work EXCEPT ![p] = @ \cup {"reset"}]
    /\ wops' = [wops EXCEPT ![p][r] = @ \cup {"reset"}]
    /\ \/ /\ GitCanSucceed(p)
          /\ tree' = [tree EXCEPT ![r] = wcur[p][r]]
          /\ wpc' = [wpc EXCEPT ![p][r] = IF wstate[p][r].lastCommit # "" THEN "diff" ELSE "full"]
          /\ UNCHANGED injected
       \/ /\ wpc' = [wpc EXCEPT ![p][r] = "fail"]
          /\ injected' = [injected EXCEPT ![p] = TRUE]
          /\ UNCHANGED tree
    /\ UNCHANGED <<cancelled, idx, wneed, lockVars, diskVars, svcVars, wstate, wnew, wcur,
                   built, blockedBy, inTime, interrupted>>
    /\ UNCHANGED fanVars

\* syncRepo: s.git.GetChangedFiles; an error or an empty list falls through
\* to the full index
SyncRepo_ChangedFiles(p, r) ==
    /\ wpc[p][r] = "diff"
    /\ \/ /\ GitCanSucceed(p)
          /\ wpc' = [wpc EXCEPT ![p][r] =
                       IF ChangedFiles(wstate[p][r].lastCommit, wcur[p][r]) # {}
                       THEN "incr" ELSE IncrementalFallback]
          /\ UNCHANGED injected
       \/ /\ wpc' = [wpc EXCEPT ![p][r] = IncrementalFallback]
          /\ injected' = [injected EXCEPT ![p] = TRUE]
    /\ UNCHANGED <<cancelled, contentVars, wops, wneed, lockVars, diskVars, svcVars, wstate, wnew,
                   wcur, histVars>>
    /\ UNCHANGED fanVars

\* IncrementalIndex / FullIndex: OpenForWrite. bleve.Open, else bleve.New,
\* which creates the index directory; bleve.New fails on an existing path.
Index_Open(p, r) ==
    /\ wpc[p][r] \in {"incr", "full"}
    /\ work' = [work EXCEPT ![p] = @ \cup {IF wpc[p][r] = "incr" THEN "IncrementalIndex" ELSE "FullIndex"}]
    /\ wops' = [wops EXCEPT ![p][r] = @ \cup {IF wpc[p][r] = "incr" THEN "IncrementalIndex" ELSE "FullIndex"}]
    /\ IF Conflicts(r, OpenForWriteCap)
       THEN /\ wpc' = [wpc EXCEPT ![p][r] = IF wpc[p][r] = "incr" THEN IncrementalFallback ELSE "fail"]
            /\ injected' = [injected EXCEPT ![p] = TRUE]
            /\ UNCHANGED <<handles, indexDir>>
       ELSE /\ handles' = handles \cup {Handle(p, r, "OpenForWrite", OpenForWriteCap)}
            /\ indexDir' = [indexDir EXCEPT ![r] = TRUE]
            /\ wpc' = [wpc EXCEPT ![p][r] = IF wpc[p][r] = "incr" THEN "incr_w" ELSE "full_w"]
            /\ UNCHANGED injected
    /\ UNCHANGED <<cancelled, contentVars, wneed, lockVars, manifestFile, repoDir, svcVars, wstate,
                   wnew, wcur, built, blockedBy, inTime, interrupted>>
    /\ UNCHANGED fanVars

\* IncrementalIndex / FullIndex: the batches and the deferred index.Close();
\* then, in syncRepo, the state update and SetRepoState on success, the
\* fallback to the full index or the error return on failure
Index_Finish(p, r) ==
    /\ wpc[p][r] \in {"incr_w", "full_w"}
    /\ handles' = handles \ {Handle(p, r, "OpenForWrite", OpenForWriteCap)}
    /\ LET written == IF wpc[p][r] = "incr_w"
                      THEN IncrementalIndexed(idx[r], tree[r],
                                              ChangedFiles(wstate[p][r].lastCommit, wcur[p][r]))
                      ELSE FullIndexed(idx[r], tree[r])
       IN \/ /\ idx' = [idx EXCEPT ![r] = written]
             /\ wstate' = [wstate EXCEPT ![p][r] = Indexed(@, wcur[p][r])]
             /\ manifest' = [manifest EXCEPT ![p].repos[r] = wstate'[p][r]]
             /\ built' = [built EXCEPT ![p] = @ \cup {r}]
             /\ wpc' = [wpc EXCEPT ![p][r] = "ok"]
             /\ UNCHANGED injected
          \/ \* a batch flush or the Close fails: what was flushed stays
             /\ \E ix \in {idx[r], written} : idx' = [idx EXCEPT ![r] = ix]
             /\ wpc' = [wpc EXCEPT ![p][r] = IF wpc[p][r] = "incr_w" THEN IncrementalFallback ELSE "fail"]
             /\ injected' = [injected EXCEPT ![p] = TRUE]
             /\ UNCHANGED <<wstate, manifest, built>>
    /\ UNCHANGED <<cancelled, tree, wops, wneed, lockVars, manifestFile, repoDir, indexDir, pc, role,
                   ready, initErr, wnew, wcur, work, blockedBy, inTime, interrupted>>
    /\ UNCHANGED fanVars

\* Manifest.SetRepoError on the record st of the repo
SetRepoError(st) == IF st.present THEN [st EXCEPT !.err = TRUE] ELSE [ZeroState EXCEPT !.err = TRUE]

\* Manifest.ClearRepoError on the record st of the repo
ClearRepoErrorKeepsMutant(st) == st
ClearRepoError(st) == IF st.present THEN [st EXCEPT !.err = FALSE] ELSE st

\* worker: syncRepo has returned; SetRepoError / ClearRepoError, release the
\* semaphore, wg.Done()
Worker_Finish(p, r) ==
    /\ wpc[p][r] \in {"ok", "fail"}
    /\ manifest' = [manifest EXCEPT ![p].repos[r] =
                       IF wpc[p][r] = "fail" THEN SetRepoError(@) ELSE ClearRepoError(@)]
    /\ wpc' = [wpc EXCEPT ![p][r] = "done"]
    /\ wstate' = [wstate EXCEPT ![p][r] = NoRepo]
    /\ wnew' = [wnew EXCEPT ![p][r] = FALSE]
    /\ wcur' = [wcur EXCEPT ![p][r] = ""]
    /\ wops' = [wops EXCEPT ![p][r] = {}]
    /\ wneed' = [wneed EXCEPT ![p][r] = "unknown"]
    /\ UNCHANGED <<cancelled, contentVars, injected, lockVars, diskVars, pc, role, ready, initErr,
                   histVars>>
    /\ UNCHANGED fanVars

\* Initialize, leader: where it goes after the step at q (SyncAll, save, unlock)
UnlockBeforeSaveMutant(q) == IF q = "syncing" THEN "unlock" ELSE IF q = "unlock" THEN "save" ELSE "open"
LeaderNext(q) == IF q = "syncing" THEN "save" ELSE IF q = "save" THEN "unlock" ELSE "open"

\* wg.Wait() returns: every goroutine of this SyncAll has called wg.Done()
WgWaitEarlyMutant(p) == \E r \in Configured : wpc[p][r] \notin {"idle", "spawned"}
WgWaitReturns(p) == \A r \in Configured : wpc[p][r] = "done"

\* SyncAll from wg.Wait() on: UpdateLastSync and the summary error (which
\* Initialize only logs)
SyncAll_Wait(p) ==
    /\ pc[p] = "syncing"
    /\ WgWaitReturns(p)
    /\ manifest' = [manifest EXCEPT ![p].lastSync = TRUE]
    /\ wpc' = [wpc EXCEPT ![p] = [r \in Configured |-> "idle"]]
    /\ pc' = [pc EXCEPT ![p] = LeaderNext("syncing")]
    /\ UNCHANGED <<cancelled, contentVars, callVars, lockVars, diskVars, role, ready, initErr, wstate, wnew, wcur, histVars>>
    /\ UNCHANGED fanVars

\* Initialize, leader: s.saveManifest(); a failure is logged
Initialize_Save(p) ==
    /\ pc[p] = "save"
    /\ pc' = [pc EXCEPT ![p] = LeaderNext("save")]
    /\ \/ manifestFile' = manifest[p]
       \/ UNCHANGED manifestFile
    /\ UNCHANGED <<cancelled, contentVars, callVars, lockVars, repoDir, indexDir, handles, role, manifest, ready, initErr,
                   workerVars, histVars>>

\* Initialize, leader: s.lock.Unlock()
Initialize_Unlock(p) ==
    /\ pc[p] = "unlock"
    /\ Unlock(p)
    /\ pc' = [pc EXCEPT ![p] = LeaderNext("unlock")]
    /\ inTime' = [f \in Procs |->
                    \/ inTime[f]
                    \/ /\ blockedBy[f] = p
                       /\ \/ pc[f] = "lock"
                          \/ pc[f] = "wait" /\ lpc[f] # "idle" /\ deadline[f] >= 0]
    /\ UNCHANGED <<cancelled, contentVars, callVars, diskVars, role, manifest, ready, initErr, workerVars,
                   work, built, blockedBy, interrupted>>

\* the configured Repo IDs whose index directory exists (IndexExists)
IndexedReposAllMutant == Configured
IndexedRepos == {r \in Configured : indexDir[r]}

\* openIndexes: CreateAlias over the configured repos that have an index
\* directory; every index is opened with OpenForRead, and the handles opened
\* so far are closed if one fails
OpenIndexes(p) ==
    /\ pc[p] = "open"
    /\ pc' = [pc EXCEPT ![p] = "done"]
    /\ IF IndexedRepos = {}
       THEN /\ ready' = [ready EXCEPT ![p] = FALSE]
            /\ UNCHANGED <<handles, initErr>>
       ELSE IF \E r \in IndexedRepos : Conflicts(r, OpenForReadCap)
       THEN /\ initErr' = [initErr EXCEPT ![p] = "alias"]
            /\ UNCHANGED <<handles, ready>>
       ELSE /\ handles' = handles \cup {Handle(p, r, "OpenForRead", OpenForReadCap) : r \in IndexedRepos}
            /\ ready' = [ready EXCEPT ![p] = TRUE]
            /\ UNCHANGED initErr
    /\ UNCHANGED <<cancelled, contentVars, callVars, lockVars, manifestFile, repoDir, indexDir, role, manifest,
                   workerVars, histVars>>

\* the fields of the Service that Close works on: the handles of s.alias
\* (none: s.alias is nil) and s.ready
SvcState(p) == [alias |-> {h \in handles : h.proc = p /\ h.via = "OpenForRead"}, ready |-> ready[p]]

\* Close on these fields: the alias, if there is one, is closed and set to
\* nil, ready is cleared, nil is returned
CloseNeedsAliasMutant(st) ==
    IF st.alias = {} THEN [alias |-> {}, ready |-> st.ready, err |-> "alias"]
                     ELSE [alias |-> {}, ready |-> FALSE, err |-> "none"]
CloseResult(st) == [alias |-> {}, ready |-> FALSE, err |-> "none"]

\* GetIndexAlias returns an error
GetIndexAliasFails(st) == ~st.ready \/ st.alias = {}

\* Close, called on a constructed Service before or after Initialize or after
\* an earlier Close: close the alias (and with it the handles it owns), clear
\* ready
Close(p) ==
    /\ pc[p] \in {"init", "done", "closed"}
    /\ pc' = [pc EXCEPT ![p] = IF @ = "done" THEN "closed" ELSE @]
    /\ LET res == CloseResult(SvcState(p))
       IN /\ handles' = {h \in handles : ~(h.proc = p /\ h.via = "OpenForRead")} \cup res.alias
          /\ ready' = [ready EXCEPT ![p] = res.ready]
    /\ UNCHANGED <<cancelled, contentVars, callVars, lockVars, manifestFile, repoDir, indexDir, role, manifest, initErr,
                   workerVars, histVars>>

\* the process exits after Close and the next run starts: a new Service with
\* a new lock instance and a new ctx
Restart(p) ==
    /\ pc[p] = "closed"
    /\ pc' = [pc EXCEPT ![p] = "new"]
    /\ role' = [role EXCEPT ![p] = "none"]
    /\ manifest' = [manifest EXCEPT ![p] = NewManifest]
    /\ initErr' = [initErr EXCEPT ![p] = "none"]
    /\ cancelled' = [cancelled EXCEPT ![p] = FALSE]
    /\ lres' = [lres EXCEPT ![p] = "none"]
    /\ work' = [work EXCEPT ![p] = {}]
    /\ built' = [built EXCEPT ![p] = {}]
    /\ blockedBy' = [blockedBy EXCEPT ![p] = 0]
    /\ inTime' = [inTime EXCEPT ![p] = FALSE]
    /\ injected' = [injected EXCEPT ![p] = FALSE]
    /\ UNCHANGED <<held, file, lpc, lctx, deadline, pollInterval, wakeIn, owned, relSeen, punctual,
                   diskVars, ready, workerVars, contentVars, wops, wneed, interrupted>>

\* ---------------------------------------------------- FileLock on its own
CallTryLock(i) == TryLock(i) /\ UNCHANGED <<cancelled, appVars>>
CallLock(i) == \E t \in Timeouts : LockStart(i, t, FALSE) /\ UNCHANGED <<cancelled, appVars>>
CallLockWithContext(i) == \E t \in Timeouts : LockStart(i, t, TRUE) /\ UNCHANGED <<cancelled, appVars>>
CallUnlock(i) == Unlock(i) /\ UNCHANGED <<cancelled, appVars>>

Init ==
    /\ held = {}
    /\ file = [i \in Locks |-> FALSE]
    /\ lpc = [i \in Locks |-> "idle"]
    /\ lctx = [i \in Locks |-> FALSE]
    /\ deadline = [i \in Locks |-> 0]
    /\ pollInterval = [i \in Locks |-> 0]
    /\ wakeIn = [i \in Locks |-> 0]
    /\ lres = [i \in Locks |-> "none"]
    /\ cancelled = [i \in Procs |-> FALSE]
    /\ owned = [i \in Locks |-> FALSE]
    /\ relSeen = [i \in Locks |-> FALSE]
    /\ punctual = [i \in Locks |-> TRUE]
    /\ manifestFile = [NewManifest EXCEPT !.repos = [r \in AllRepos |->
                          IF r \in StaleRepos THEN SyncedState("c1") ELSE NoRepo],
                        !.lastSync = TRUE]
    /\ repoDir = [r \in AllRepos |-> r \in StaleRepos]
    /\ indexDir = [r \in AllRepos |-> r \in StaleRepos]
    /\ handles = {}
    /\ pc = [p \in Procs |-> "new"]
    /\ role = [p \in Procs |-> "none"]
    /\ manifest = [p \in Procs |-> NewManifest]
    /\ ready = [p \in Procs |-> FALSE]
    /\ initErr = [p \in Procs |-> "none"]
    /\ wpc = [p \in Procs |-> [r \in Configured |-> "idle"]]
    /\ wstate = [p \in Procs |-> [r \in Configured |-> NoRepo]]
    /\ wnew = [p \in Procs |-> [r \in Configured |-> FALSE]]
    /\ wcur = [p \in Procs |-> [r \in Configured |-> ""]]
    /\ work = [p \in Procs |-> {}]
    /\ built = [p \in Procs |-> {}]
    /\ blockedBy = [p \in Procs |-> 0]
    /\ inTime = [p \in Procs |-> FALSE]
    /\ tree = [r \in AllRepos |-> IF r \in StaleRepos THEN "c1" ELSE "none"]
    /\ idx = [r \in AllRepos |-> IF r \in StaleRepos THEN TreeAt("c1") ELSE NoFiles]
    /\ wops = [p \in Procs |-> [r \in Configured |-> {}]]
    /\ wneed = [p \in Procs |-> [r \in Configured |-> "unknown"]]
    /\ injected = [p \in Procs |-> FALSE]
    /\ interrupted = [r \in Configured |-> FALSE]
    /\ fan = [u \in URLs |-> "idle"]
    /\ errChan = {}
    /\ fanRet = "none"
    /\ mrepos = [g \in Goroutines |-> NoRepo]
    /\ mcall = [g \in Goroutines |-> NoCall]
    /\ mlost = {}
    /\ mcrashed = FALSE
    /\ mexpect = [g \in Goroutines |-> NoRepo]
    /\ sfiles = [n \in {"path", "tmp"} |-> NoFile]
    /\ spc = "idle"
    /\ sdata = 0
    /\ smem = 0
    /\ sprev = NoFile
    /\ bpc = "idle"
    /\ batchSize = 0
    /\ batchBytes = 0
    /\ totalIndexed = 0
    /\ pending = 0
    /\ added = 0
    /\ wdir = [f \in Paths |-> Gone]
    /\ docs = [f \in Paths |-> NoDoc]
    /\ ixret = NoRet
    /\ rdArgs = NoArgs
    /\ rdResult = NoResult
    /\ rdTouched = {}
    /\ gitRemote = 1
    /\ gitOrigin = 1
    /\ gitHead = 1
    /\ gitIndexed = 1
    /\ gitState = [lastCommit |-> 1, lastIndexed |-> 1]
    /\ gitPc = "idle"
    /\ gitCur = 0
    /\ gitBehind = FALSE
    /\ gitRet = "none"
    /\ sAlias = "nil"
    /\ sReady = FALSE
    /\ sOpened = FALSE
    /\ aliasClosed = FALSE
    /\ srch = [h \in Handlers |-> IdleSearch]

NextLock ==
    \/ Tick
    \/ \E i \in Procs : Cancel(i)
    \/ \E i \in Locks : CallTryLock(i)
    \/ \E i \in Procs : CallLock(i)
    \/ \E i \in Procs : CallLockWithContext(i)
    \/ \E i \in Locks : CallUnlock(i)
    \/ \E i \in Locks : LockPoll(i)
    \/ \E i \in Locks : LockWake(i)

SpecLock == Init /\ [][NextLock]_vars

\* ------------------------------------------- the processes on a base directory
Next ==
    \/ Tick
    \/ \E p \in Procs : Cancel(p)
    \/ \E p \in Procs : NewService(p)
    \/ \E p \in Procs : Initialize_TryLock(p)
    \/ \E p \in Procs : Initialize_FollowerLock(p)
    \/ \E p \in Procs : LockPoll(p)
    \/ \E p \in Procs : LockWake(p)
    \/ \E p \in Procs : Initialize_FollowerAfterLock(p)
    \/ \E p \in Procs : SyncAll_Start(p)
    \/ \E p \in Procs, r \in Configured : SyncRepo_Start(p, r)
    \/ \E p \in Procs, r \in Configured : SyncRepo_Clone(p, r)
    \/ \E p \in Procs, r \in Configured : SyncRepo_Fetch(p, r)
    \/ \E p \in Procs, r \in Configured : SyncRepo_Head(p, r)
    \/ \E p \in Procs, r \in Configured : SyncRepo_Reset(p, r)
    \/ \E p \in Procs, r \in Configured : SyncRepo_ChangedFiles(p, r)
    \/ \E p \in Procs, r \in Configured : Index_Open(p, r)
    \/ \E p \in Procs, r \in Configured : Index_Finish(p, r)
    \/ \E p \in Procs, r \in Configured : Worker_Finish(p, r)
    \/ \E p \in Procs : SyncAll_Wait(p)
    \/ \E p \in Procs : Initialize_Save(p)
    \/ \E p \in Procs : Initialize_Unlock(p)
    \/ \E p \in Procs : OpenIndexes(p)
    \/ \E p \in Procs : Close(p)

Spec == Init /\ [][Next]_vars

\* ------------------------------------- one process, run after run (the syncs)
Solo == {1}

NextSync ==
    \/ \E p \in Solo : Cancel(p)
    \/ \E p \in Solo : NewService(p)
    \/ \E p \in Solo : Initialize_TryLock(p)
    \/ \E p \in Solo : SyncAll_Start(p)
    \/ \E p \in Solo, r \in Configured : SyncRepo_Start(p, r)
    \/ \E p \in Solo, r \in Configured : SyncRepo_Clone(p, r)
    \/ \E p \in Solo, r \in Configured : SyncRepo_Fetch(p, r)
    \/ \E p \in Solo, r \in Configured : SyncRepo_Head(p, r)
    \/ \E p \in Solo, r \in Configured : SyncRepo_Reset(p, r)
    \/ \E p \in Solo, r \in Configured : SyncRepo_ChangedFiles(p, r)
    \/ \E p \in Solo, r \in Configured : Index_Open(p, r)
    \/ \E p \in Solo, r \in Configured : Index_Finish(p, r)
    \/ \E p \in Solo, r \in Configured : Worker_Finish(p, r)
    \/ \E p \in Solo : SyncAll_Wait(p)
    \/ \E p \in Solo : Initialize_Save(p)
    \/ \E p \in Solo : Initialize_Unlock(p)
    \/ \E p \in Solo : OpenIndexes(p)
    \/ \E p \in Solo : Close(p)
    \/ \E p \in Solo : Restart(p)

SpecSync == Init /\ [][NextSync]_vars

\* ------------------------------------- SyncAll's fan-out over many URLs
\* Here syncRepo is one step that returns nil or an error; everything else of
\* SyncAll from the semaphore on is as in the code.
otherVars == <<cancelled, lockVars, diskVars, svcVars, histVars, contentVars, callVars,
               wpc, wstate, wnew, wcur, mapVars, saveVars, batchVars, ixVars, readVars, gitVars, searchVars>>

\* SyncAll: sem, wg, errChan, and one goroutine per URL
FanOut_Start ==
    /\ fanRet = "none"
    /\ \A u \in URLs : fan[u] = "idle"
    /\ fan' = [u \in URLs |-> "spawned"]
    /\ errChan' = {}
    /\ UNCHANGED <<fanRet, otherVars>>

\* goroutine: sem <- struct{}{}
FanOut_Acquire(u) ==
    /\ fan[u] = "spawned"
    /\ CanAcquire(fan)
    /\ fan' = [fan EXCEPT ![u] = "running"]
    /\ UNCHANGED <<errChan, fanRet, otherVars>>

\* goroutine: s.syncRepo(ctx, repoID, url) returns nil or an error (clone,
\* fetch, reset, commit lookup or index build failed)
FanOut_SyncRepo(u) ==
    /\ fan[u] = "running"
    /\ \E res \in {"ok", "fail"} : fan' = [fan EXCEPT ![u] = res]
    /\ UNCHANGED <<errChan, fanRet, otherVars>>

\* errChan := make(chan error, len(urls)): the sends the channel takes
\* before a receiver is needed
ErrChanSemSizedMutant == MaxParallelSyncs
ErrChanCap == Cardinality(URLs)

\* goroutine: SetRepoError and errChan <- err, or ClearRepoError; then the
\* deferred <-sem and wg.Done()
FanOut_Release(u) ==
    /\ fan[u] \in {"ok", "fail"}
    /\ fan[u] = "fail" => Cardinality(errChan) < ErrChanCap
    /\ errChan' = IF fan[u] = "fail" THEN errChan \cup {u} ELSE errChan
    /\ fan' = [fan EXCEPT ![u] = "done"]
    /\ UNCHANGED <<fanRet, otherVars>>

\* wg.Wait() returns
FirstErrorMutant(f) == (\A u \in DOMAIN f : f[u] = "done") \/ (\E u \in DOMAIN f : f[u] = "fail")
WaitGroupDone(f) == \A u \in DOMAIN f : f[u] = "done"

\* SyncAll from wg.Wait() on: collect errChan, return the summary error or nil
FanOut_Wait ==
    /\ fanRet = "none"
    /\ \E u \in URLs : fan[u] # "idle"
    /\ WaitGroupDone(fan)
    /\ fanRet' = IF errChan # {} THEN "error" ELSE "nil"
    /\ UNCHANGED <<fan, errChan, otherVars>>

\* the next call of SyncAll (a new run on the same configuration)
FanOut_Again ==
    /\ fanRet # "none"
    /\ fan' = [u \in URLs |-> "idle"]
    /\ errChan' = {}
    /\ fanRet' = "none"
    /\ UNCHANGED otherVars

NextFanOut ==
    \/ FanOut_Start
    \/ \E u \in URLs : FanOut_Acquire(u)
    \/ \E u \in URLs : FanOut_SyncRepo(u)
    \/ \E u \in URLs : FanOut_Release(u)
    \/ FanOut_Wait
    \/ FanOut_Again

SpecFanOut == Init /\ [][NextFanOut]_vars

\* ------------------------------- the goroutines of SyncAll on s.manifest
\* The methods of Manifest read and write the map m.Repos without taking any
\* lock. A map access takes time: it begins and it ends. Two accesses that
\* overlap, one of them a write, are a data race on the map; the runtime then
\* either stops the process or lets both go on, and a write that raced may
\* not take effect.
nonMapVars == <<cancelled, lockVars, diskVars, svcVars, histVars, contentVars, callVars,
                wpc, wstate, wnew, wcur, fan, errChan, fanRet, saveVars, batchVars, ixVars, readVars, gitVars, searchVars>>

\* the methods that start with a map read
ReadsFirst == {"GetRepoState", "SetRepoError", "ClearRepoError"}

\* what a goroutine waits for before it enters a Manifest method: nothing, the
\* methods take no lock
MayEnter(g) == TRUE

\* goroutine g begins a map access of the given kind while another access
\* that conflicts with it is in progress
Races(g, kind) ==
    \E h \in Goroutines \ {g} :
        \/ mcall[h].stage = "writing"
        \/ kind = "writing" /\ mcall[h].stage = "reading"

\* the map writes in progress once g has begun an access of the given kind
Writers(g, kind) ==
    {h \in Goroutines \ {g} : mcall[h].stage = "writing"}
        \cup (IF kind = "writing" THEN {g} ELSE {})

\* goroutine g begins a map access
BeginAccess(g, kind) ==
    IF Races(g, kind)
    THEN \/ /\ mcrashed' = TRUE
            /\ UNCHANGED <<mcall, mlost>>
         \/ /\ mcall' = [mcall EXCEPT ![g].stage = kind]
            /\ \E l \in {{}} \cup {{w} : w \in Writers(g, kind)} : mlost' = mlost \cup l
            /\ UNCHANGED mcrashed
    ELSE /\ mcall' = [mcall EXCEPT ![g].stage = kind]
         /\ UNCHANGED <<mlost, mcrashed>>

\* the calls the goroutine makes after the method has returned with state st:
\* after GetRepoState syncRepo goes on and either stores the indexed state,
\* or finds the repo up to date, or fails
NextCalls(method, st) ==
    CASE method = "GetRepoState" ->
            {[method |-> "SetRepoState", stage |-> "call", local |-> Indexed(st, "c1")],
             [method |-> "ClearRepoError", stage |-> "call", local |-> NoRepo],
             [method |-> "SetRepoError", stage |-> "call", local |-> NoRepo]}
      [] method = "SetRepoState" ->
            {[method |-> "ClearRepoError", stage |-> "call", local |-> NoRepo]}
      [] OTHER -> {NoCall}

\* the goroutine of a Repo ID starts: syncRepo calls GetRepoState
Man_WorkerStart(g) ==
    /\ ~mcrashed
    /\ mcall[g].method = "none"
    /\ mcall' = [mcall EXCEPT ![g] = [method |-> "GetRepoState", stage |-> "call", local |-> NoRepo]]
    /\ UNCHANGED <<mrepos, mlost, mcrashed, mexpect, nonMapVars>>

\* state, ok := m.Repos[repoID] begins
Man_ReadBegin(g) ==
    /\ ~mcrashed
    /\ mcall[g].method \in ReadsFirst /\ mcall[g].stage = "call"
    /\ MayEnter(g)
    /\ BeginAccess(g, "reading")
    /\ UNCHANGED <<mrepos, mexpect, nonMapVars>>

\* state, ok := m.Repos[repoID] ends; GetRepoState of a known repo and
\* ClearRepoError of an unknown one return
Man_ReadEnd(g) ==
    /\ ~mcrashed
    /\ mcall[g].stage = "reading"
    /\ LET st == mrepos[g]
           m == mcall[g].method
       IN IF (m = "GetRepoState" /\ st.present) \/ (m = "ClearRepoError" /\ ~st.present)
          THEN \E c \in NextCalls(m, st) : mcall' = [mcall EXCEPT ![g] = c]
          ELSE mcall' = [mcall EXCEPT ![g].stage = "read",
                                      ![g].local = CASE m = "GetRepoState" -> ZeroState
                                                     [] m = "SetRepoError" -> SetRepoError(st)
                                                     [] OTHER -> ClearRepoError(st)]
    /\ UNCHANGED <<mrepos, mlost, mcrashed, mexpect, nonMapVars>>

\* m.Repos[repoID] = state begins
Man_WriteBegin(g) ==
    /\ ~mcrashed
    /\ \/ mcall[g].stage = "read"
       \/ mcall[g].method = "SetRepoState" /\ mcall[g].stage = "call" /\ MayEnter(g)
    /\ BeginAccess(g, "writing")
    /\ UNCHANGED <<mrepos, mexpect, nonMapVars>>

\* m.Repos[repoID] = state ends and the method returns
Man_WriteEnd(g) ==
    /\ ~mcrashed
    /\ mcall[g].stage = "writing"
    /\ mrepos' = IF g \in mlost THEN mrepos ELSE [mrepos EXCEPT ![g] = mcall[g].local]
    /\ mlost' = mlost \ {g}
    /\ mexpect' = [mexpect EXCEPT ![g] = mcall[g].local]
    /\ \E c \in NextCalls(mcall[g].method, mcall[g].local) : mcall' = [mcall EXCEPT ![g] = c]
    /\ UNCHANGED <<mcrashed, nonMapVars>>

NextManifest ==
    \/ \E g \in Goroutines : Man_WorkerStart(g)
    \/ \E g \in Goroutines : Man_ReadBegin(g)
    \/ \E g \in Goroutines : Man_ReadEnd(g)
    \/ \E g \in Goroutines : Man_WriteBegin(g)
    \/ \E g \in Goroutines : Man_WriteEnd(g)

SpecManifest == Init /\ [][NextManifest]_vars

\* ------------------------------------------------- Manifest.Save in steps
nonSaveVars == <<cancelled, lockVars, diskVars, svcVars, histVars, contentVars, callVars,
                 wpc, wstate, wnew, wcur, fan, errChan, fanRet, mapVars, batchVars, ixVars, readVars, gitVars, searchVars>>

\* the file os.WriteFile writes to: tempPath := path + ".tmp"
WriteInPlaceMutant == "path"
TempPath == "tmp"

\* the manifest in memory changes (SetRepoState, SetRepoError, UpdateLastSync ...)
Save_Mutate ==
    /\ spc = "idle"
    /\ smem < MaxVersions
    /\ smem' = smem + 1
    /\ UNCHANGED <<sfiles, spc, sdata, sprev, nonSaveVars>>

\* Save: MkdirAll and json.MarshalIndent; either can fail
Save_Call ==
    /\ spc = "idle"
    /\ sprev' = sfiles["path"]
    /\ sdata' = smem
    /\ \/ spc' = "write"
       \/ spc' = "idle"
    /\ UNCHANGED <<sfiles, smem, nonSaveVars>>

\* os.WriteFile(tempPath, ...): the file is created or truncated
Save_WriteOpen ==
    /\ spc = "write"
    /\ \/ /\ sfiles' = [sfiles EXCEPT ![TempPath] = FileOf(sdata, FALSE)]
          /\ spc' = "writing"
       \/ /\ spc' = "idle"
          /\ UNCHANGED sfiles
    /\ UNCHANGED <<sdata, smem, sprev, nonSaveVars>>

\* os.WriteFile(tempPath, ...): all of data is written, or the write fails
\* part-way and Save returns the error
Save_WriteFile ==
    /\ spc = "writing"
    /\ \/ /\ sfiles' = [sfiles EXCEPT ![TempPath] = FileOf(sdata, TRUE)]
          /\ spc' = "rename"
       \/ /\ spc' = "idle"
          /\ UNCHANGED sfiles
    /\ UNCHANGED <<sdata, smem, sprev, nonSaveVars>>

\* os.Rename(tempPath, path); on failure os.Remove(tempPath)
Save_Rename ==
    /\ spc = "rename"
    /\ \/ sfiles' = [n \in {"path", "tmp"} |->
                        IF n = "path" THEN sfiles[TempPath]
                        ELSE IF n = TempPath THEN NoFile ELSE sfiles[n]]
       \/ sfiles' = [sfiles EXCEPT ![TempPath] = NoFile]
    /\ spc' = "idle"
    /\ UNCHANGED <<sdata, smem, sprev, nonSaveVars>>

\* the process dies during Save; the next run loads the manifest from path
\* (an empty one if there is no file)
Save_Die ==
    /\ spc # "idle"
    /\ spc' = "idle"
    /\ smem' = IF sfiles["path"].exists THEN sfiles["path"].ver ELSE 0
    /\ UNCHANGED <<sfiles, sdata, sprev, nonSaveVars>>

NextSave ==
    \/ Save_Mutate
    \/ Save_Call
    \/ Save_WriteOpen
    \/ Save_WriteFile
    \/ Save_Rename
    \/ Save_Die

SpecSave == Init /\ [][NextSave]_vars

\* --------------------------------------------- FullIndex, batch by batch
nonBatchVars == <<cancelled, lockVars, diskVars, svcVars, histVars, contentVars, callVars,
                  wpc, wstate, wnew, wcur, fan, errChan, fanRet, mapVars, saveVars, ixVars, readVars, gitVars, searchVars>>

\* sizes of the files the walk indexes (none is larger than maxFileSize)
FileSizes == {1, DefaultMaxFileSize}

\* the flush condition after a document was added to the batch
FlushNeededMutant(n, b) == n > MaxBatchSize \/ b > MaxBatchBytes
FlushNeeded(n, b) == n >= MaxBatchSize \/ b >= MaxBatchBytes

\* FullIndex is called: OpenForWrite, index.NewBatch(), the counters at 0
Batch_Start ==
    /\ bpc \in {"idle", "done", "failed"}
    /\ bpc' = "walk"
    /\ batchSize' = 0 /\ batchBytes' = 0 /\ totalIndexed' = 0
    /\ pending' = 0 /\ added' = 0
    /\ UNCHANGED nonBatchVars

\* the walk function on a file that is indexed: batch.Index, the counters,
\* and the flush if one is needed; a failed index.Batch ends the walk
Batch_File(len) ==
    /\ bpc = "walk"
    /\ added < MaxWalkFiles
    /\ added' = added + 1
    /\ LET n == batchSize + 1
           b == batchBytes + len
       IN IF FlushNeeded(n, b)
          THEN \/ /\ totalIndexed' = totalIndexed + n
                  /\ batchSize' = 0 /\ batchBytes' = 0 /\ pending' = 0
                  /\ bpc' = "walk"
               \/ /\ batchSize' = n /\ batchBytes' = b /\ pending' = pending + 1
                  /\ bpc' = "failed"
                  /\ UNCHANGED totalIndexed
          ELSE /\ batchSize' = n /\ batchBytes' = b /\ pending' = pending + 1
               /\ UNCHANGED <<bpc, totalIndexed>>
    /\ UNCHANGED nonBatchVars

\* the walk is over: the remaining batch is flushed if batchSize > 0
Batch_End ==
    /\ bpc = "walk"
    /\ IF batchSize > 0
       THEN \/ /\ totalIndexed' = totalIndexed + batchSize
               /\ pending' = 0
               /\ bpc' = "done"
            \/ /\ bpc' = "failed"
               /\ UNCHANGED <<totalIndexed, pending>>
       ELSE /\ bpc' = "done"
            /\ UNCHANGED <<totalIndexed, pending>>
    /\ UNCHANGED <<batchSize, batchBytes, added, nonBatchVars>>

NextBatch ==
    \/ Batch_Start
    \/ \E len \in FileSizes : Batch_File(len)
    \/ Batch_End

SpecBatch == Init /\ [][NextBatch]_vars

\* ----------------------------- FullIndex and IncrementalIndex, file by file
nonIxVars == <<cancelled, lockVars, diskVars, svcVars, histVars, contentVars, callVars,
               wpc, wstate, wnew, wcur, fan, errChan, fanRet, mapVars, saveVars, batchVars, readVars, gitVars, searchVars>>

\* the walk function of FullIndex indexes the file at the path
Indexable(fs, f) ==
    /\ fs[f].kind = "file"
    /\ ~ShouldExclude(f)
    /\ ~fs[f].big
    /\ ~fs[f].binary

\* FullIndex on the index ix and the working directory fs: the documents
\* of the index afterwards and the count returned
FullIndex(ix, fs) ==
    [docs |-> [f \in Paths |-> IF Indexable(fs, f) THEN CodeDocument(f, fs[f].content) ELSE ix[f]],
     count |-> Cardinality({f \in Paths : Indexable(fs, f)})]

\* IncrementalIndex on one changed path: batch.Delete, continue, or
\* batch.Index
IncrementalDoc(ix, fs, f) ==
    IF fs[f].kind = "gone" THEN NoDoc
    ELSE IF fs[f].kind = "dir" THEN ix[f]
    ELSE IF ShouldExclude(f) THEN NoDoc
    ELSE IF fs[f].big THEN NoDoc
    ELSE IF fs[f].binary THEN NoDoc
    ELSE CodeDocument(f, fs[f].content)

\* IncrementalIndex on the index ix, the working directory fs and the
\* changed files: the documents afterwards and the count returned
IncrementalIndex(ix, fs, changedFiles) ==
    [docs |-> [f \in Paths |-> IF f \in changedFiles THEN IncrementalDoc(ix, fs, f) ELSE ix[f]],
     indexed |-> Cardinality({f \in changedFiles : Indexable(fs, f)})]

\* index.DocCount() as GetDocumentCount returns it
GetDocumentCount == Cardinality({f \in Paths : docs[f].present})

\* git changes the working directory (clone, reset --hard)
Ix_Change(f, v) ==
    /\ v # wdir[f]
    /\ wdir' = [wdir EXCEPT ![f] = v]
    /\ ixret' = NoRet
    /\ UNCHANGED <<docs, nonIxVars>>

\* FullIndex(repoID, repoDir): it returns the count and nil, or an error
\* from OpenForWrite or index.Batch (nothing written), or from index.Close
Ix_FullIndex ==
    LET res == FullIndex(docs, wdir)
    IN /\ \/ /\ docs' = res.docs
             /\ \E e \in BOOLEAN : ixret' = [op |-> "full", n |-> res.count, err |-> e, paths |-> {}]
          \/ /\ docs' = docs
             /\ ixret' = [op |-> "full", n |-> 0, err |-> TRUE, paths |-> {}]
       /\ UNCHANGED <<wdir, nonIxVars>>

\* IncrementalIndex(repoID, repoDir, changedFiles)
Ix_IncrementalIndex(changedFiles) ==
    LET res == IncrementalIndex(docs, wdir, changedFiles)
    IN /\ \/ /\ docs' = res.docs
             /\ \E e \in BOOLEAN :
                   ixret' = [op |-> "incr", n |-> res.indexed, err |-> e, paths |-> changedFiles]
          \/ /\ docs' = docs
             /\ \E n \in {0, res.indexed} :
                   ixret' = [op |-> "incr", n |-> n, err |-> TRUE, paths |-> changedFiles]
       /\ UNCHANGED <<wdir, nonIxVars>>

NextIndex ==
    \/ \E f \in Paths, v \in FileVals : Ix_Change(f, v)
    \/ Ix_FullIndex
    \/ \E changedFiles \in SUBSET Paths : Ix_IncrementalIndex(changedFiles)

SpecIndex == Init /\ [][NextIndex]_vars

\* ------------------------------------------------------ the read_code tool
nonReadVars == <<cancelled, lockVars, diskVars, svcVars, histVars, contentVars, callVars,
                 wpc, wstate, wnew, wcur, fan, errChan, fanRet, mapVars, saveVars, batchVars,
                 ixVars, gitVars, searchVars>>

\* all strings over the characters of at most n characters
StringsUpTo(chars, n) == UNION {[1..k -> chars] : k \in 0..n}

\* the path and repository arguments tried
PathArgs == StringsUpTo({"/", ".", "\\", "f", "manifest"}, MaxPathLen)
RepositoryArgs == {<<>>, <<".">>, DotDot, <<"h", "/", "a">>, <<"h", "_", "a">>, <<"x">>}

\* the disk: settings.BaseDir with the manifest, and under repos the working
\* tree of the one configured repository h/a with the text file f
BaseDir == <<"/", "base">>
ConfiguredDisplay == <<"h", "/", "a">>
ManifestPath == BaseDir \o <<"/", "manifest">>

\* Service.GetRepoDir
GetRepoDir(repoID) == JoinPath(JoinPath(BaseDir, <<"repos">>), repoID)

WorkingTree == GetRepoDir(DisplayToRepoID(ConfiguredDisplay))
DiskDirs == {<<"/">>, BaseDir, JoinPath(BaseDir, <<"repos">>), WorkingTree}
FileContent(full) ==
    IF full = ManifestPath THEN "manifest"
    ELSE IF full = WorkingTree \o <<"/", "f">> THEN "source"
    ELSE ""

\* os.Stat
Stat(full) == IF full \in DiskDirs THEN "dir" ELSE IF FileContent(full) # "" THEN "file" ELSE "none"

\* validatePath(path) returns an error
ValidatePathNoBackslashMutant(path) ==
    LET cleaned == CleanPath(path)
    IN IsAbs(cleaned) \/ HasPrefix(cleaned, DotDot) \/ Contains(cleaned, <<"/", ".", ".">>)
ValidatePathFails(path) ==
    LET cleaned == CleanPath(path)
    IN \/ IsAbs(cleaned)
       \/ HasPrefix(cleaned, DotDot)
       \/ Contains(cleaned, <<"/", ".", ".">>)
       \/ Contains(cleaned, <<"\\", ".", ".">>)

\* ReadHandler.Handle: the result and the paths handed to the file system
\* (the files of the disk above are small texts, so the size and binary
\* gates let them pass)
ReadHandle(isReady, repository, path) ==
    IF ~isReady THEN [result |-> ErrorResult("not available"), touched |-> {}]
    ELSE IF repository = <<>> THEN [result |-> ErrorResult("repository empty"), touched |-> {}]
    ELSE IF path = <<>> THEN [result |-> ErrorResult("path empty"), touched |-> {}]
    ELSE IF ValidatePathFails(path) THEN [result |-> ErrorResult("invalid path"), touched |-> {}]
    ELSE LET dir == GetRepoDir(DisplayToRepoID(repository))
             fullPath == JoinPath(dir, CleanPath(path))
         IN IF Stat(dir) = "none"
            THEN [result |-> ErrorResult("repository not found"), touched |-> {dir}]
            ELSE IF ~HasPrefix(fullPath, dir)
            THEN [result |-> ErrorResult("path traversal"), touched |-> {dir}]
            ELSE IF Stat(fullPath) = "none"
            THEN [result |-> ErrorResult("file not found"), touched |-> {dir, fullPath}]
            ELSE IF Stat(fullPath) = "dir"
            THEN [result |-> ErrorResult("directory"), touched |-> {dir, fullPath}]
            ELSE [result |-> [isError |-> FALSE, text |-> "file", content |-> FileContent(fullPath)],
                  touched |-> {dir, fullPath}]

\* a read_code call arrives and is handled
Read_Handle ==
    /\ ~rdArgs.called
    /\ \E isReady \in BOOLEAN, repository \in RepositoryArgs, path \in PathArgs :
          /\ rdArgs' = [called |-> TRUE, ready |-> isReady, repository |-> repository,
                        path |-> path]
          /\ LET res == ReadHandle(isReady, repository, path)
             IN /\ rdResult' = res.result
                /\ rdTouched' = res.touched
    /\ UNCHANGED nonReadVars

\* the result has been sent
Read_Done ==
    /\ rdArgs.called
    /\ rdArgs' = NoArgs
    /\ rdResult' = NoResult
    /\ rdTouched' = {}
    /\ UNCHANGED nonReadVars

NextRead ==
    \/ Read_Handle
    \/ Read_Done

SpecRead == Init /\ [][NextRead]_vars

\* ------------------- syncRepo of an existing repository, command by command
\* The repository was cloned and indexed at commit 1. Commits are numbered
\* in the order the remote default branch gets them.
nonGitVars == <<cancelled, lockVars, diskVars, svcVars, histVars, contentVars, callVars,
                wpc, wstate, wnew, wcur, fan, errChan, fanRet, mapVars, saveVars, batchVars,
                ixVars, readVars, searchVars>>

\* git rev-parse HEAD in repoDir: the commit the local HEAD points to
RevParseHead == gitHead

\* a commit is pushed to the remote default branch
Git_Push ==
    /\ gitPc = "idle"
    /\ gitRemote < MaxCommits
    /\ gitRemote' = gitRemote + 1
    /\ UNCHANGED <<gitOrigin, gitHead, gitIndexed, gitState, gitPc, gitCur, gitBehind, gitRet,
                   nonGitVars>>

\* syncRepo is called; the record has a cloned_at, so the repo is not new
Git_SyncRepo ==
    /\ gitPc = "idle"
    /\ gitPc' = "fetch"
    /\ gitBehind' = (gitRemote # gitState.lastCommit)
    /\ gitRet' = "none"
    /\ gitCur' = 0
    /\ UNCHANGED <<gitRemote, gitOrigin, gitHead, gitIndexed, gitState, nonGitVars>>

\* git fetch --depth 1: the remote-tracking ref follows the remote; HEAD and
\* the working tree stay as they are
Git_Fetch ==
    /\ gitPc = "fetch"
    /\ \/ /\ gitOrigin' = gitRemote
          /\ gitPc' = "head"
          /\ UNCHANGED gitRet
       \/ /\ gitPc' = "idle"
          /\ gitRet' = "error"
          /\ UNCHANGED gitOrigin
    /\ UNCHANGED <<gitRemote, gitHead, gitIndexed, gitState, gitCur, gitBehind, nonGitVars>>

\* the rest of syncRepo: GetHeadCommit and needsReindex; if a reindex is
\* needed, git reset --hard origin/HEAD and the incremental or full index,
\* after which the index holds the files of the working tree and the record
\* takes currentCommit
Git_Head ==
    /\ gitPc = "head"
    /\ gitPc' = "idle"
    /\ \/ /\ gitRet' = "error"
          /\ UNCHANGED <<gitCur, gitHead, gitIndexed, gitState>>
       \/ /\ gitCur' = RevParseHead
          /\ IF ~NeedsReindex(FALSE, [lastIndexed |-> "set", lastCommit |-> gitState.lastCommit],
                              gitCur')
             THEN /\ gitRet' = "ok"
                  /\ UNCHANGED <<gitHead, gitIndexed, gitState>>
             ELSE \/ /\ gitRet' = "error"
                     /\ UNCHANGED <<gitHead, gitIndexed, gitState>>
                  \/ /\ gitHead' = gitOrigin
                     /\ \/ /\ gitIndexed' = gitHead'
                           /\ gitState' = [lastCommit |-> gitCur', lastIndexed |-> gitCur']
                           /\ gitRet' = "ok"
                        \/ /\ gitRet' = "error"
                           /\ UNCHANGED <<gitIndexed, gitState>>
    /\ UNCHANGED <<gitRemote, gitOrigin, gitBehind, nonGitVars>>

NextGit ==
    \/ Git_Push
    \/ Git_SyncRepo
    \/ Git_Fetch
    \/ Git_Head

SpecGit == Init /\ [][NextGit]_vars

C2_FollowerNeverSyncs ==
    \A p \in Procs : role[p] = "follower" =>
        /\ work[p] = {}
        /\ built[p] = {}
        /\ pc[p] \notin {"sync", "syncing", "save", "unlock"}
        /\ \A r \in Configured : wpc[p][r] = "idle"

\* C2 witness: a follower whose wait timed out has finished Initialize
C2_Witness ==
    \E p \in Procs : role[p] = "follower" /\ lres[p] = "timeout" /\ pc[p] \in {"done", "closed"}

\* C3: at most one process has a per-repo index open with write capability,
\* and it is the leader while it holds the lock; every handle opened through
\* openIndexes / CreateAlias / OpenForRead is read-only.
C3_SingleWriter ==
    /\ Cardinality({h.proc : h \in {g \in handles : g.cap = "rw"}}) <= 1
    /\ \A h \in handles : h.cap = "rw" => (role[h.proc] = "leader" /\ h.proc \in held)
    /\ \A h \in handles : h.via = "OpenForRead" => h.cap = "ro"

\* C4: the leader holds the lock without interruption from its tryLock until
\* SyncAll has returned and the manifest save has been attempted.
C4_LeaderHoldsThroughSave ==
    \A p \in Procs : (role[p] = "leader" /\ pc[p] \in {"sync", "syncing", "save", "unlock"})
                        => (p \in held /\ file[p] /\ held = {p})

\* C4 witness: the leader's SyncAll has built an index, the save has been
\* attempted, and the leader is about to unlock
C4_Witness ==
    \E p \in Procs : role[p] = "leader" /\ pc[p] = "unlock" /\ built[p] # {} /\ p \in held

\* C5: if the leader unlocks within the follower's sync_timeout, the follower
\* does not open indexes before the leader has unlocked, and the follower's
\* Initialize then succeeds in opening the indexes the leader built.
C5_FollowerOpensLeadersIndexes ==
    [][ \A f \in Procs :
          (role[f] = "follower" /\ inTime[f] /\ pc[f] = "open" /\ pc'[f] = "done")
              => /\ blockedBy[f] \notin held
                 /\ initErr'[f] = "none"
                 /\ \A r \in built[blockedBy[f]] \cap IndexedRepos :
                       \E h \in handles' : h.proc = f /\ h.repo = r /\ h.via = "OpenForRead" ]_vars

\* C6: a follower whose wait for the lock ends in LockTimeout does not fail
\* Initialize; it goes on to openIndexes.
C6_TimeoutProceedsToOpen ==
    [][ \A p \in Procs :
          (role[p] = "follower" /\ pc[p] = "wait" /\ pc'[p] # "wait" /\ lres[p] = "timeout")
              => (pc'[p] = "open" /\ initErr'[p] = "none") ]_vars

\* C6 witness: a follower is about to open the indexes after LockTimeout
C6_Witness ==
    \E p \in Procs : role[p] = "follower" /\ lres[p] = "timeout" /\ pc[p] = "open" /\ initErr[p] = "none"

\* C10: Initialize returns promptly once its ctx is cancelled, the follower's
\* wait for the lock included: a follower whose ctx is cancelled leaves the
\* wait at its next step, it does not go on polling or sleeping.
C10_CancelledFollowerStopsWaiting ==
    [][ \A p \in Procs :
          (role[p] = "follower" /\ pc[p] = "wait" /\ cancelled[p]
             /\ lpc[p] \in {"check", "sleep"} /\ lpc'[p] # lpc[p])
              => lpc'[p] = "idle" ]_vars


\* ------------------------------------------------------- FileLock: claims

\* C7: at any time at most one FileLock instance holds the lock on the lock
\* file; while another instance holds it, no TryLock or Lock of an instance
\* returns success and the instance does not come to hold the lock.
C7_AtMostOneHolder ==
    [][ /\ Cardinality(held') <= 1
        /\ \A i \in Locks : held \ {i} # {} =>
              /\ i \notin held'
              /\ lres'[i] # lres[i] => lres'[i] # "ok" ]_vars

\* C7 witness: an instance holds the lock and a TryLock of another instance
\* has returned (false, nil)
C7_Witness == \E i, j \in Locks : i # j /\ held = {i} /\ lres[j] = "would_block"

\* C8 (as claimed): an instance on which TryLock or Lock returned success
\* holds the lock until Unlock is called on it, whatever lock operations are
\* invoked on it in between.
C8_HeldUntilUnlock == \A i \in Locks : owned[i] => i \in held

\* C9 (as claimed, with every poll of the call made exactly when it is due): a
\* Lock(timeout) call that returns after the holder unlocked before the
\* deadline, nobody having taken the lock since, returns success and holds
\* the lock.
C9_AcquiresAfterRelease ==
    [][ \A i \in Locks :
          (lpc[i] # "idle" /\ lpc'[i] = "idle" /\ ~lctx[i] /\ relSeen[i] /\ punctual[i])
              => (lres'[i] = "ok" /\ i \in held') ]_vars

\* C9 (amended): a poll of a waiting Lock call that is made not later than
\* the deadline (and with its context not cancelled) while no other instance
\* holds the lock returns success and leaves the caller holding the lock.
C9_PollBeforeDeadlineAcquires ==
    [][ \A i \in Locks :
          (lpc[i] = "check" /\ lpc'[i] # "check" /\ ~(lctx[i] /\ cancelled[i])
             /\ deadline[i] >= 0 /\ held \ {i} = {})
              => (lpc'[i] = "idle" /\ lres'[i] = "ok" /\ i \in held') ]_vars

\* C9 witness: a Lock call that saw the holder unlock has returned success
C9_Witness == \E i \in Locks : relSeen[i] /\ lres[i] = "ok" /\ held = {i}


\* ------------------------------------------------------ syncRepo: claims
\* p is inside SyncAll
Syncing(p) == pc[p] \in {"sync", "syncing"}

\* the record says: indexed at the commit last seen
SyncedAt(rec) == rec.present /\ rec.lastIndexed # "" /\ rec.lastIndexed = rec.lastCommit

\* C11: whenever a repository's manifest record (in memory or in
\* manifest.json) has last_indexed = last_commit, the on-disk index holds a
\* document for exactly the indexable files of the tree at that commit, each
\* with the file's content at that commit.
C11_IndexReflectsRecord ==
    \A r \in Configured :
        /\ \A p \in Procs : (pc[p] \notin {"new", "closed"} /\ wpc[p][r] \in {"idle", "done"}
                               /\ SyncedAt(manifest[p].repos[r]))
                                => idx[r] = TreeAt(manifest[p].repos[r].lastCommit)
        /\ ((~\E p \in Procs : Syncing(p)) /\ SyncedAt(manifestFile.repos[r]))
                => idx[r] = TreeAt(manifestFile.repos[r].lastCommit)

\* C12: whenever a repository's manifest record has a zero cloned_at (and no
\* syncRepo call on it is running), no working tree was ever created for it
\* by a clone.
C12_ZeroClonedAtNeverMaterialized ==
    \A r \in Configured : \A p \in Procs :
        (pc[p] \notin {"new", "closed"} /\ wpc[p][r] \in {"idle", "done"}
            /\ manifest[p].repos[r].present /\ ~manifest[p].repos[r].cloned)
                => tree[r] = "none"


\* positions of a syncRepo call after its clone or fetch has returned
AfterVcs == {"head", "reset", "diff", "incr", "incr_w", "full", "full_w", "ok"}

\* C13: syncRepo invokes clone (and no fetch) iff the manifest has no record
\* for the repo or the record's cloned_at is zero; otherwise it invokes fetch
\* (and no clone).
C13_CloneIffNew ==
    [][ \A p \in Procs, r \in Configured :
          /\ (wpc[p][r] = "spawned" /\ wpc'[p][r] # "spawned")
                => LET new == ~manifest[p].repos[r].present \/ ~manifest[p].repos[r].cloned
                   IN /\ wnew'[p][r] = new
                      /\ wpc'[p][r] = IF new THEN "clone" ELSE "fetch"
          /\ wpc'[p][r] \in AfterVcs
                => wops'[p][r] \cap {"clone", "fetch"} = IF wnew'[p][r] THEN {"clone"} ELSE {"fetch"}
          /\ wpc'[p][r] = "fail"
                => wops'[p][r] \cap {"clone", "fetch"} = IF wnew'[p][r] THEN {"clone"} ELSE {"fetch"} ]_vars

\* C13 witness: a repository whose record has a non-zero cloned_at was
\* fetched, not cloned
C13_Witness ==
    \E p \in Procs, r \in Configured :
        wpc[p][r] = "head" /\ manifest[p].repos[r].cloned /\ wops[p][r] = {"fetch"}


\* the index builds syncRepo can invoke
Builds == {"IncrementalIndex", "FullIndex"}

\* syncRepo returns in this step
Returns(p, r) == wpc[p][r] \notin {"ok", "fail"} /\ wpc'[p][r] \in {"ok", "fail"}

\* the decision taken when GetHeadCommit returns currentCommit: a reindex is
\* needed iff the repo is new, or last_indexed is empty, or currentCommit
\* differs from last_commit
DecidesAsStated(p, r) ==
    (wpc[p][r] = "head" /\ wpc'[p][r] \notin {"head", "fail"})
        => (wneed'[p][r] = "yes"
              <=> (wnew[p][r] \/ wstate[p][r].lastIndexed = ""
                      \/ wcur'[p][r] # wstate[p][r].lastCommit))

\* C14: after obtaining currentCommit, syncRepo performs an index build
\* (incremental or full) iff the repo is new, or last_indexed is empty, or
\* currentCommit differs from last_commit.
C14_BuildIffNeeded ==
    [][ \A p \in Procs, r \in Configured :
          /\ DecidesAsStated(p, r)
          /\ (Returns(p, r) /\ wneed'[p][r] # "unknown")
                => (wops'[p][r] \cap Builds # {} <=> wneed'[p][r] = "yes") ]_vars

\* C14, amended: no index build is invoked unless one is needed, and when one
\* is needed a build is invoked unless the reset before it has failed, in
\* which case syncRepo returns the error without building.
C14_BuildIffNeededUnlessResetFails ==
    [][ \A p \in Procs, r \in Configured :
          /\ DecidesAsStated(p, r)
          /\ (Returns(p, r) /\ wneed'[p][r] # "unknown")
                => /\ wops'[p][r] \cap Builds # {} => wneed'[p][r] = "yes"
                   /\ (wneed'[p][r] = "yes" /\ wops'[p][r] \cap Builds = {})
                         => (wpc[p][r] = "reset" /\ wpc'[p][r] = "fail") ]_vars

\* C14 witness: an existing, indexed repository whose head has moved is
\* rebuilt
C14_Witness ==
    \E p \in Procs, r \in Configured :
        /\ wpc[p][r] = "ok" /\ ~wnew[p][r] /\ wneed[p][r] = "yes"
        /\ wops[p][r] \cap Builds # {}


\* C15: when no reindex is needed (existing repo, last_indexed non-empty,
\* currentCommit = last_commit), syncRepo leaves the state alone: from its
\* first step to its return the repo's manifest record is not rewritten and
\* its index is not modified.
C15_NoReindexNoChange ==
    [][ \A p \in Procs, r \in Configured :
          LET rec == manifest[p].repos[r]
              same == manifest'[p].repos[r] = rec /\ idx'[r] = idx[r]
          IN /\ (wpc[p][r] = "spawned" /\ wpc'[p][r] # "spawned" /\ rec.present /\ rec.cloned)
                    => (same /\ wstate'[p][r] = rec /\ wpc'[p][r] = "fetch")
             /\ (wpc[p][r] = "fetch" /\ wpc'[p][r] # "fetch") => same
             /\ (wpc[p][r] = "head" /\ ~wnew[p][r] /\ wpc'[p][r] # "head") => same
             /\ (wpc[p][r] = "head" /\ wpc'[p][r] = "ok")
                    => /\ ~wnew[p][r] /\ wstate[p][r].lastIndexed # ""
                       /\ wcur'[p][r] = wstate[p][r].lastCommit
                       /\ manifest'[p].repos[r] = wstate[p][r] ]_vars

\* C15 witness: syncRepo is about to return from a call that found the repo
\* up to date
C15_Witness ==
    \E p \in Procs, r \in Configured :
        /\ wpc[p][r] = "ok" /\ wneed[p][r] = "no" /\ wops[p][r] = {"fetch"}
        /\ manifest[p].repos[r] = wstate[p][r]


\* the record of r in p's manifest says: indexed at commit c, pulled now
RecordedAt(p, r, c) ==
    /\ manifest[p].repos[r].present
    /\ manifest[p].repos[r].lastCommit = c
    /\ manifest[p].repos[r].lastIndexed = c

\* C16: when changedFiles succeeds with a non-empty list and IncrementalIndex
\* succeeds, syncRepo sets last_commit and last_indexed to currentCommit,
\* updates last_pull, stores the record in the manifest and returns without
\* running FullIndex.
C16_IncrementalSuccessRecords ==
    [][ \A p \in Procs, r \in Configured :
          (wpc[p][r] = "incr_w" /\ wpc'[p][r] \notin {"incr_w", IncrementalFallback, "fail"})
              => /\ wpc'[p][r] = "ok"
                 /\ ChangedFiles(wstate[p][r].lastCommit, wcur[p][r]) # {}
                 /\ RecordedAt(p, r, wcur[p][r])'
                 /\ manifest'[p].repos[r].lastPull = "now"
                 /\ manifest[p].repos[r].lastPull # "now"
                 /\ manifest'[p].repos[r] = wstate'[p][r]
                 /\ manifest'[p].repos[r].cloned
                 /\ "FullIndex" \notin wops'[p][r] ]_vars

\* C16 witness: syncRepo is about to return after a successful incremental
\* index and no full index
C16_Witness ==
    \E p \in Procs, r \in Configured :
        /\ wpc[p][r] = "ok" /\ wops[p][r] = {"fetch", "reset", "IncrementalIndex"}
        /\ RecordedAt(p, r, wcur[p][r])


\* C17: if the incremental attempt fails (changedFiles returns an error or
\* IncrementalIndex returns an error), the same syncRepo call goes on to
\* FullIndex, and when that succeeds it records last_commit = last_indexed =
\* currentCommit.
C17_IncrementalFailureFallsBack ==
    [][ \A p \in Procs, r \in Configured :
          /\ (wpc[p][r] = "diff" /\ wpc'[p][r] \notin {"diff", "incr"}) => wpc'[p][r] = "full"
          /\ (wpc[p][r] \in {"incr", "incr_w"} /\ wpc'[p][r] \notin {"incr", "incr_w", "ok"})
                => wpc'[p][r] = "full"
          /\ (wpc[p][r] = "full" /\ wpc'[p][r] # "full")
                => ("FullIndex" \in wops'[p][r] /\ wcur'[p][r] = wcur[p][r])
          /\ (wpc[p][r] = "full_w" /\ wpc'[p][r] = "ok")
                => (RecordedAt(p, r, wcur[p][r])' /\ manifest'[p].repos[r].lastPull = "now") ]_vars

\* C17 witness: syncRepo is about to return from a call in which
\* IncrementalIndex failed and the FullIndex after it succeeded
C17_Witness ==
    \E p \in Procs, r \in Configured :
        /\ wpc[p][r] = "ok" /\ injected[p]
        /\ {"IncrementalIndex", "FullIndex"} \subseteq wops[p][r]
        /\ RecordedAt(p, r, wcur[p][r])


\* SyncAll returns in this step, from a run in which nothing was cancelled and
\* no operation failed that could have succeeded
CleanSyncEnds(p) ==
    /\ pc[p] = "syncing" /\ pc'[p] # "syncing"
    /\ ~injected[p] /\ ~cancelled[p]

\* the record of r in p's manifest says: no error, indexed at its last commit
Recovered(p, r) ==
    /\ manifest[p].repos[r].present
    /\ ~manifest[p].repos[r].err
    /\ manifest[p].repos[r].lastIndexed # ""
    /\ manifest[p].repos[r].lastIndexed = manifest[p].repos[r].lastCommit

\* C18: after a sync in which a clone or fetch of a repository was cancelled
\* or failed part-way, a later sync in which every VCS and index operation
\* can succeed recovers the repository: it ends with an empty error and
\* last_indexed = last_commit.
C18_LaterSyncRecovers ==
    [][ \A p \in Procs, r \in Configured :
          (CleanSyncEnds(p) /\ interrupted[r]) => Recovered(p, r) ]_vars


\* ------------------------------------------------------ SyncAll: claims
\* the URLs whose goroutine holds a slot of the semaphore: syncRepo is running
\* or has returned and the slot is not released yet
InSyncRepo == {u \in URLs : fan[u] \in {"running", "ok", "fail"}}

\* C19: during SyncAll at most 4 (MaxParallelSyncs) syncRepo executions are in
\* progress at any time, whatever the number of configured URLs.
C19_AtMostFourInProgress == Cardinality(InSyncRepo) <= MaxParallelSyncs

\* C19 witness: four syncRepo executions are running and a further goroutine
\* is waiting for the semaphore
C19_Witness ==
    /\ Cardinality({u \in URLs : fan[u] = "running"}) = MaxParallelSyncs
    /\ \E u \in URLs : fan[u] = "spawned"

\* C20: in SyncAll, syncRepo is run to completion for every configured URL
\* regardless of failures of other repositories: SyncAll returns only when
\* the syncRepo of every URL has returned, a goroutine leaves syncRepo only by
\* its own return, a goroutine that has not started is held back only while
\* the semaphore is full, and errChan holds exactly the URLs that failed.
C20_EveryRepoRunsToCompletion ==
    /\ [](\A u \in URLs :
            (fan[u] = "spawned" /\ Cardinality(InSyncRepo) < MaxParallelSyncs)
                => ENABLED FanOut_Acquire(u))
    /\ [][ /\ \A u \in URLs :
                /\ fan[u] = "spawned" => fan'[u] \in {"spawned", "running"}
                /\ fan[u] = "running" => fan'[u] \in {"running", "ok", "fail"}
                /\ fan[u] \in {"ok", "fail"} => fan'[u] \in {fan[u], "done"}
                /\ fanRet = "none"
                      => (u \in errChan' <=> (u \in errChan \/ (fan[u] = "fail" /\ fan'[u] = "done")))
           /\ (fanRet = "none" /\ fanRet' # "none")
                => /\ \A u \in URLs : fan[u] = "done"
                   /\ fanRet' = IF errChan = {} THEN "nil" ELSE "error" ]_vars

\* C20 witness: SyncAll has returned the summary error after some
\* repositories failed and the others were synchronised
C20_Witness ==
    /\ fanRet = "error"
    /\ errChan # {} /\ errChan # URLs
    /\ \A u \in URLs : fan[u] = "done"


\* ------------------------------------------------ SyncAll and the manifest
\* C21: after SyncAll returns, the error field of a configured repository's
\* record is non-empty iff that repository's syncRepo failed in this run: the
\* worker sets it when syncRepo returned an error and empties it when syncRepo
\* returned nil, whatever an earlier run had recorded, and nothing changes it
\* from then until SyncAll has returned.
C21_ErrorIffFailedThisRun ==
    [][ \A p \in Procs, r \in Configured :
          /\ (wpc[p][r] \in {"ok", "fail"} /\ wpc'[p][r] = "done")
                => /\ manifest'[p].repos[r].present
                   /\ manifest'[p].repos[r].err <=> wpc[p][r] = "fail"
          /\ wpc[p][r] = "done"
                => manifest'[p].repos[r].err = manifest[p].repos[r].err ]_vars

\* C21 witness: SyncAll has returned with the repo's error empty although the
\* manifest file of the earlier run still records one
C21_Witness ==
    \E p \in Procs, r \in Configured :
        /\ pc[p] = "save"
        /\ manifest[p].repos[r].present /\ ~manifest[p].repos[r].err
        /\ manifestFile.repos[r].present /\ manifestFile.repos[r].err


C23_ManifestCallsAtomic ==
    /\ ~mcrashed
    /\ \A g \in Goroutines : mrepos[g] = mexpect[g]


\* C24: while Save(path) runs, and if it fails or the process dies part-way,
\* the file at path always holds either the complete previous manifest (or is
\* absent as before) or the complete new manifest, never a partially written
\* one.
C24_SaveIsAtomic ==
    /\ sfiles["path"].exists => sfiles["path"].complete
    /\ sfiles["path"] \in {sprev, FileOf(sdata, TRUE)}

\* C24 witness: Save failed or the process died after the temp file was
\* partly written, and the file at path still holds the previous manifest
C24_Witness ==
    /\ spc = "idle"
    /\ sfiles["tmp"].exists /\ ~sfiles["tmp"].complete
    /\ sfiles["path"].exists /\ sfiles["path"] = sprev
    /\ sfiles["path"].ver # sdata


\* -------------------------------------------------- openIndexes and Close
\* the read handles process p holds: what its alias is made of
AliasOf(p) == {h \in handles : h.proc = p /\ h.via = "OpenForRead"}

\* C25: openIndexes sets ready true iff the set of configured Repo IDs whose
\* index directory exists is non-empty and CreateAlias over that set opened
\* cleanly; after a successful Initialize with at least one indexed
\* configured repository ready is true and the alias holds a handle of every
\* one of them.
C25_ReadyIffAliasOpened ==
    [][ \A p \in Procs :
          (pc[p] = "open" /\ pc'[p] = "done")
              => LET S == {r \in Configured : indexDir[r]}
                     clean == \A r \in S : ~Conflicts(r, OpenForReadCap)
                 IN /\ ready'[p] <=> (S # {} /\ clean)
                    /\ (initErr'[p] = "none" /\ S # {})
                          => /\ ready'[p]
                             /\ AliasOf(p)' = {Handle(p, r, "OpenForRead", OpenForReadCap) : r \in S} ]_vars

\* C25 witness: Initialize has returned nil and the service is ready with an
\* alias over the indexed repository
C25_Witness ==
    \E p \in Procs :
        /\ pc[p] = "done" /\ initErr[p] = "none" /\ ready[p]
        /\ AliasOf(p) # {}


C29_BatchBounded ==
    /\ bpc = "walk" => /\ pending < MaxBatchSize
                       /\ pending = batchSize
                       /\ batchBytes < MaxBatchBytes
    /\ bpc = "done" => (pending = 0 /\ totalIndexed = added)

\* C29 witness: a walk with a flush on the way and a flush of the remainder
\* has returned
C29_Witness ==
    /\ bpc = "done" /\ totalIndexed = added
    /\ 0 < batchSize /\ batchSize < totalIndexed

\* C27: after FullIndex returns the count n without error, GetDocumentCount
\* is n, whatever the index held before (nothing, or the documents of an
\* earlier version of the tree).
C27_CountIsDocumentCount ==
    (ixret.op = "full" /\ ~ixret.err) => GetDocumentCount = ixret.n

\* C28: after IncrementalIndex on the changed files P, for every path of P:
\* no document is left if the file is gone, excluded, oversized or binary,
\* and otherwise the document holds the file's current content.
C28_IncrementalDocsCurrent ==
    (ixret.op = "incr" /\ ~ixret.err)
        => \A f \in ixret.paths :
              IF wdir[f].kind = "file" /\ ~ShouldExclude(f) /\ ~wdir[f].big /\ ~wdir[f].binary
              THEN docs[f].present /\ docs[f].content = wdir[f].content
              ELSE ~docs[f].present

\* the symbols field of a document of the index
SymbolsOf(doc) == IF "symbols" \in DOMAIN doc THEN doc.symbols ELSE {}

\* C30: every document FullIndex writes carries in its symbols field the
\* symbols extracted from the file's content for the file's extension.
C30_DocumentsCarrySymbols ==
    (ixret.op = "full" /\ ~ixret.err)
        => \A f \in Paths :
              Indexable(wdir, f)
                  => ExtractSymbols(docs[f].extension, docs[f].content) \subseteq SymbolsOf(docs[f])

\* C31: read_code returns an error-flagged result, without reading any
\* file, for every path that is absolute, whose cleaned form starts with "..",
\* or whose cleaned form contains "/.." or "\..".
C31_TraversalPathsRejected ==
    (/\ rdArgs.called
     /\ \/ IsAbs(rdArgs.path)
        \/ HasPrefix(CleanPath(rdArgs.path), DotDot)
        \/ Contains(CleanPath(rdArgs.path), <<"/", ".", ".">>)
        \/ Contains(CleanPath(rdArgs.path), <<"\\", ".", ".">>))
        => (rdResult.isError /\ rdTouched = {})

\* C31 witness: a ready service has rejected the path f\.. of the configured
\* repository as invalid
C31_Witness ==
    /\ rdArgs.called /\ rdArgs.ready /\ rdArgs.repository = ConfiguredDisplay
    /\ rdArgs.path = <<"f", "\\", ".", ".">>
    /\ rdResult = ErrorResult("invalid path") /\ rdTouched = {}

\* C32: read_code returns file content only for a file inside the working
\* tree of a configured repository, whatever the repository and path
\* arguments are.
C32_OnlyConfiguredTreesReadable ==
    (rdArgs.called /\ ~rdResult.isError)
        => \E full \in rdTouched :
              /\ HasPrefix(full, WorkingTree \o <<"/">>)
              /\ rdResult.content = FileContent(full)
              /\ \A other \in rdTouched : HasPrefix(full, other)

\* what a leader's saved record of a repository keeps of an earlier one
KeepsPersisted(old, new) ==
    (old.present /\ old.lastIndexed # "")
        => (new.present /\ new.cloned = old.cloned /\ new.lastCommit # "" /\ new.lastIndexed # "")

\* C33: a process that becomes leader bases its sync on the manifest as last
\* saved by any earlier leader, and no save of a leader loses the persisted
\* state (cloned_at, last_commit, last_indexed) of a still-configured
\* repository.
C33_LeaderStartsFromSavedManifest ==
    /\ [](\A p \in Procs : pc[p] = "sync" => manifest[p] = LoadManifest(manifestFile))
    /\ [][ \A r \in Configured : KeepsPersisted(manifestFile.repos[r], manifestFile'.repos[r]) ]_vars

\* the index writers a process has open (OpenForWrite in FullIndex or
\* IncrementalIndex, not yet closed)
WritersOf(p) == {h \in handles : h.proc = p /\ h.via = "OpenForWrite"}

\* C34: at the moment the leader releases the process lock in Initialize,
\* every index writer it opened during SyncAll has been closed and none of
\* its FullIndex or IncrementalIndex calls is still in progress.
C34_WritersClosedAtUnlock ==
    [][ \A p \in Procs :
          (pc[p] = "unlock" /\ pc'[p] # "unlock")
              => (WritersOf(p) = {} /\ InFlight(p) = {}) ]_vars

\* C34 witness: a leader that built an index has released the lock
C34_Witness ==
    \E p \in Procs :
        /\ role[p] = "leader" /\ pc[p] = "open" /\ built[p] # {}
        /\ p \notin held /\ WritersOf(p) = {}

\* C35: if the remote default branch has advanced since the last
\* successful sync of an existing repository, the next successful syncRepo
\* detects it (currentCommit is the new commit) and ends with the working
\* tree, the index and last_indexed at the new commit.
C35_RemoteAdvanceDetected ==
    (gitPc = "idle" /\ gitRet = "ok" /\ gitBehind)
        => /\ gitCur = gitRemote
           /\ gitHead = gitRemote
           /\ gitIndexed = gitRemote
           /\ gitState.lastIndexed = gitRemote

\* another process holds the index of the repo open for search
OpenForSearchElsewhere(p, r) ==
    \E h \in handles : h.proc # p /\ h.repo = r /\ h.via = "OpenForRead"

\* C36: a leader's sync of a repository is never blocked or made to fail by
\* other processes that hold the repository's index open for search: its
\* OpenForWrite succeeds and the index build goes on.
C36_SearchersDoNotBlockLeader ==
    [][ \A p \in Procs : \A r \in Configured :
          (/\ wpc[p][r] \in {"incr", "full"}
           /\ wpc'[p][r] # wpc[p][r]
           /\ OpenForSearchElsewhere(p, r))
              => wpc'[p][r] \in {"incr_w", "full_w"} ]_vars

\* ------------------------------------------------ the search_code tool
\* One Service and the calls of SearchHandler.Handle that run on it at the
\* same time. s.mu is held inside IsReady, GetIndexAlias, openIndexes and
\* Close, and not between them.
nonSearchVars == <<cancelled, lockVars, diskVars, svcVars, histVars, contentVars, callVars,
                   wpc, wstate, wnew, wcur, fan, errChan, fanRet, mapVars, saveVars, batchVars,
                   ixVars, readVars, gitVars>>

\* openIndexes at the end of Initialize: no index exists (s.ready = false) or
\* the alias is created and stored
Search_OpenIndexes(anyIndex) ==
    /\ ~sOpened
    /\ sOpened' = TRUE
    /\ sAlias' = IF anyIndex THEN "alias" ELSE sAlias
    /\ sReady' = anyIndex
    /\ UNCHANGED <<aliasClosed, srch, nonSearchVars>>

\* Close: s.alias.Close(), s.alias = nil, s.ready = false
Search_Close ==
    /\ aliasClosed' = (aliasClosed \/ sAlias # "nil")
    /\ sAlias' = "nil"
    /\ sReady' = FALSE
    /\ UNCHANGED <<sOpened, srch, nonSearchVars>>

\* Handle up to the query check: IsReady, then the query
Search_Handle(h, emptyQuery) ==
    /\ srch[h].pc = "idle"
    /\ srch' = [srch EXCEPT ![h] =
                  IF ~sReady THEN [IdleSearch EXCEPT !.pc = "done", !.result = "notReady"]
                  ELSE IF emptyQuery THEN [IdleSearch EXCEPT !.pc = "done", !.result = "emptyQuery"]
                  ELSE [IdleSearch EXCEPT !.pc = "GetIndexAlias"]]
    /\ UNCHANGED <<sAlias, sReady, sOpened, aliasClosed, nonSearchVars>>

\* Handle: alias, err := h.service.GetIndexAlias()
Search_GetIndexAlias(h) ==
    /\ srch[h].pc = "GetIndexAlias"
    /\ srch' = [srch EXCEPT ![h] =
                  IF ~sReady \/ sAlias = "nil"
                  THEN [@ EXCEPT !.pc = "done", !.result = "accessFailed"]
                  ELSE [@ EXCEPT !.pc = "Search", !.alias = sAlias]]
    /\ UNCHANGED <<sAlias, sReady, sOpened, aliasClosed, nonSearchVars>>

\* Handle: results, err := alias.Search(searchReq) on the alias it got, and
\* the result built from it
Search_Search(h) ==
    /\ srch[h].pc = "Search"
    /\ \E res \in (IF aliasClosed THEN {"searchFailed"} ELSE {"results", "searchFailed"}) :
          srch' = [srch EXCEPT ![h] = [@ EXCEPT !.pc = "done", !.result = res, !.onClosed = aliasClosed]]
    /\ UNCHANGED <<sAlias, sReady, sOpened, aliasClosed, nonSearchVars>>

\* the call has returned; the next call of the tool
Search_Return(h) ==
    /\ srch[h].pc = "done"
    /\ srch' = [srch EXCEPT ![h] = IdleSearch]
    /\ UNCHANGED <<sAlias, sReady, sOpened, aliasClosed, nonSearchVars>>

NextSearch ==
    \/ \E anyIndex \in BOOLEAN : Search_OpenIndexes(anyIndex)
    \/ Search_Close
    \/ \E h \in Handlers, emptyQuery \in BOOLEAN : Search_Handle(h, emptyQuery)
    \/ \E h \in Handlers : Search_GetIndexAlias(h)
    \/ \E h \in Handlers : Search_Search(h)
    \/ \E h \in Handlers : Search_Return(h)

SpecSearch == Init /\ [][NextSearch]_vars

\* C38: no search executes against the index alias after Close has closed it:
\* a search_code call running concurrently with Close either completes on
\* the still-open alias or returns the not-ready error result
C38_NoSearchOnClosedAlias ==
    \A h \in Handlers :
        /\ ~srch[h].onClosed
        /\ (srch[h].pc = "done" /\ aliasClosed)
              => srch[h].result \in {"results", "notReady", "accessFailed", "emptyQuery"}

\* ------------------------------------------- the configured URLs and Repo IDs
\* s.settings.URLs: the list SyncAll ranges over. The settings accept any
\* non-empty list; the first two entries here are the two spellings of one
\* repository (SCP style and ssh:// style), the others are distinct.
SettingsURLs ==
    [u \in URLs |->
        IF u = 1 THEN [style |-> "scp", host |-> "github.com", path |-> <<"org", 1>>, dotGit |-> TRUE]
        ELSE IF u = 2 THEN [style |-> "ssh", host |-> "github.com", path |-> <<"org", 1>>, dotGit |-> TRUE]
        ELSE [style |-> "scp", host |-> "github.com", path |-> <<"org", u>>, dotGit |-> (u % 2 = 1)]]

\* URLToRepoID: ParseSSHURL takes host and path out of either style, without
\* the user, the scheme and a trailing ".git"; sanitizeForFilesystem joins
\* them with "_" in place of "/"
URLToRepoID(url) == <<url.host>> \o url.path

\* C37: at no time are two syncRepo executions for the same Repo ID in
\* progress, whatever the list of configured URLs
C37_OneSyncRepoPerRepoID ==
    \A u, v \in URLs :
        (u # v /\ fan[u] = "running" /\ fan[v] = "running")
            => URLToRepoID(SettingsURLs[u]) # URLToRepoID(SettingsURLs[v])

\* the running or returned syncRepo call of process p on r has reached the
\* changedFiles call or an index build
AtDiffOrBuild(p, r) ==
    \/ wpc[p][r] \in {"diff", "incr", "full", "incr_w", "full_w"}
    \/ wops[p][r] \cap {"IncrementalIndex", "FullIndex"} # {}

\* C39: whenever a reindex is needed for a repository that is not new,
\* reset(repoDir) is invoked before any changedFiles call and before any
\* index build of that syncRepo
C39_ResetBeforeDiffAndBuild ==
    \A p \in Procs : \A r \in Configured :
        (~wnew[p][r] /\ wneed[p][r] = "yes" /\ AtDiffOrBuild(p, r))
            => "reset" \in wops[p][r]

C39_Witness ==
    \E p \in Procs : \E r \in Configured :
        /\ ~wnew[p][r] /\ wneed[p][r] = "yes"
        /\ {"reset", "FullIndex"} \subseteq wops[p][r]
        /\ wpc[p][r] = "ok"

\* how far the goroutine of a URL has come
Stage(st) == CASE st = "idle" -> 0 [] st = "spawned" -> 1 [] st = "running" -> 2
               [] st \in {"ok", "fail"} -> 3 [] st = "done" -> 4

\* SyncAll has not returned, no syncRepo call is running, and neither a
\* goroutine (at the semaphore, at errChan) nor wg.Wait() can go on
Stuck ==
    /\ fanRet = "none"
    /\ \E u \in URLs : fan[u] # "idle"
    /\ \A u \in URLs : fan[u] # "running"
    /\ ~ENABLED FanOut_Wait
    /\ \A u \in URLs : ~ENABLED FanOut_Acquire(u) /\ ~ENABLED FanOut_Release(u)

\* C40: SyncAll always terminates once every syncRepo call has returned: no
\* worker blocks forever on the semaphore or on the error collector channel.
\* A call in progress is never stuck, and every step of it brings one
\* goroutine further or is the return of SyncAll.
C40_SyncAllTerminates ==
    /\ []~Stuck
    /\ [][ (fanRet = "none" /\ \E u \in URLs : fan[u] # "idle")
             => \/ fanRet' # "none"
                \/ /\ \A u \in URLs : Stage(fan'[u]) >= Stage(fan[u])
                   /\ \E u \in URLs : Stage(fan'[u]) > Stage(fan[u]) ]_vars

C40_Witness ==
    /\ fanRet = "error"
    /\ Cardinality(errChan) > MaxParallelSyncs

====
